---- MODULE Spec2Model ----
(***************************************************************************)
(* A model of the job-application agents: the provider fallback of         *)
(* RealJobSearchAPI (real_job_search_api.py), the match scoring of         *)
(* JobSearcherAgent (job-searcher-agent.py), the ranked searches of        *)
(* JobSearcherAgent and CompleteJobApplicationAgent (complete-job-agent.py)*)
(* and the extraction of RealResumeParser (real_resume_parser.py).         *)
(*                                                                         *)
(* Python values are modelled as follows.  A dict is a function from its   *)
(* keys; d.get(k, default) is Get(d, k, default).  A value that arrives    *)
(* from a provider's JSON is tagged with its JSON type (Str, Null, Obj),   *)
(* so that None in the place of a string or of a dict is a value the       *)
(* formatting code can meet.  The time stamp "searched_at" and the echoed  *)
(* "search_query" and "location" of a result are left out: no step of the  *)
(* modelled code reads them.                                               *)
(***************************************************************************)
EXTENDS Integers, Sequences, FiniteSets, TLC

VARIABLES
    \* RealJobSearchAPI and one run of search_jobs_with_fallback
    cfg,        \* the credentials read by __init__
    pc,         \* position of search_jobs_with_fallback
    calls,      \* provider adapters invoked in this run, in order
    requests,   \* HTTP requests issued in this run, in order
    jresp,      \* what requests.get did for JSearch in this run
    jres,       \* what search_jobs_jsearch returned in this run
    aresp,      \* what requests.get did for Adzuna in this run
    ares,       \* what search_jobs_adzuna returned in this run
    result,     \* the value search_jobs_with_fallback returned
    \* calls of JobSearcherAgent.calculate_job_score
    sjob,       \* the job posting of the last call
    sresume,    \* the resume data of the last call
    sscore,     \* what the last call returned
    svariant,   \* a second call on a variant of sjob and sresume
    \* one JobSearcherAgent or CompleteJobApplicationAgent and its calls
    agent,      \* the class of the agent
    set_order,  \* the order in which this process iterates a set of str
    mock_jobs,  \* JobSearcherAgent: self.mock_jobs; CompleteJobApplicationAgent:
                \* the mock_jobs made by the last call of search_jobs
    audit_logs, \* CompleteJobApplicationAgent: the rows of table audit_logs
    searches,   \* the number of calls of search_jobs so far
    aresume,    \* the resume data of the last call of search_jobs
    scored_jobs,\* the list the last call of search_jobs returned; an element
                \* is the position in mock_jobs of the dict it refers to
    criteria,   \* the criteria of the last call of filter_jobs_by_criteria
                \* on scored_jobs
    filtered,   \* the list that call returned, of positions in mock_jobs
    matching_jobs,  \* the list the first call of search_jobs returned, as its
                \* caller keeps it
    \* one RealResumeParser and its calls
    pcall,      \* the call the program makes: the method and its argument
    hash_order, \* the order in which this process iterates a set of str
    now,        \* the clock that datetime.now() reads
    extraction, \* the last run of extract_text_from_pdf
    parsed,     \* what the first call of parse_resume returned
    parsed_again,   \* what the second call of parse_resume returned
    pret        \* what the call of an extractor returned

fbVars == <<cfg, pc, calls, requests, jresp, jres, aresp, ares, result>>

scVars == <<sjob, sresume, sscore, svariant>>

agVars == <<agent, set_order, mock_jobs, audit_logs, searches, aresume,
            scored_jobs, criteria, filtered, matching_jobs>>

paVars == <<pcall, hash_order, now, extraction, parsed, parsed_again, pret>>

vars == <<fbVars, scVars, agVars, paVars>>

\* what each component leaves alone
notFbVars == <<scVars, agVars, paVars>>
notScVars == <<fbVars, agVars, paVars>>
notAgVars == <<fbVars, scVars, paVars>>
notPaVars == <<fbVars, scVars, agVars>>

-----------------------------------------------------------------------------
(* Bounds *)

\* the longest list of postings a provider answers with
MaxItems == 2

\* the longest list of required skills of a scored job
MaxSkills == 2

\* the most calls of search_jobs made on one agent
MaxSearches == 2

-----------------------------------------------------------------------------
(* Python helpers *)

EmptyDict == [k \in {} |-> k]

Get(d, k, default) == IF k \in DOMAIN d THEN d[k] ELSE default

Range(seq) == {seq[i] : i \in 1..Len(seq)}

\* truth value of a Python str
Truthy(s) == s # ""

SeqsUpTo(S, n) == UNION {[1..m -> S] : m \in 0..n}

\* a dict with key k, or without it
Opt(k, values) == {EmptyDict} \cup {k :> v : v \in values}

\* a value that is used again and again is bound once, as the element of a
\* one-element set: TheOne({F(x) : x \in {e}}) is F(e)
TheOne(S) == CHOOSE x \in S : TRUE

\* the k-th least element of a set of positions
Nth(positions, k) ==
    CHOOSE p \in positions : Cardinality({q \in positions : q < p}) = k - 1

\* the character of a string at position i
CharAt(s, i) == SubSeq(s, i, i)

\* "a in b" on two strings, position by position
ContainsAt(a, b) ==
    \E i \in 1..(Len(b) - Len(a) + 1) : SubSeq(b, i, i + Len(a) - 1) = a

UpperChars ==
    <<"A", "B", "C", "D", "E", "F", "G", "H", "I", "J", "K", "L", "M",
      "N", "O", "P", "Q", "R", "S", "T", "U", "V", "W", "X", "Y", "Z">>

LowerChars ==
    <<"a", "b", "c", "d", "e", "f", "g", "h", "i", "j", "k", "l", "m",
      "n", "o", "p", "q", "r", "s", "t", "u", "v", "w", "x", "y", "z">>

LowerMap == [c \in Range(UpperChars) |->
                LowerChars[CHOOSE i \in 1..Len(UpperChars) : UpperChars[i] = c]]

LowerChar(c) == IF c \in DOMAIN LowerMap THEN LowerMap[c] ELSE c

\* str.lower() of the characters of s from a to b
RECURSIVE LowerRange(_, _, _)
LowerRange(s, a, b) ==
    IF a > b THEN ""
    ELSE IF a = b THEN LowerChar(CharAt(s, a))
    ELSE TheOne({LowerRange(s, a, m) \o LowerRange(s, m + 1, b) :
                    m \in {(a + b) \div 2}})

\* str.lower(), character by character
LowerByChar(s) == LowerRange(s, 1, Len(s))

\* strings that are lower-cased again and again: their lower-case forms are
\* computed once
LowerOnce ==
    [s \in {"", "React", "TypeScript", "JavaScript", "Node.js", "GraphQL",
            "AWS", "Python", "PostgreSQL", "Docker", "CSS", "Figma", "HTML",
            "Kubernetes", "Terraform", "Linux", "Django", "Redis",
            "REST APIs", "Leadership", "5+ years experience",
            "4+ years experience", "3+ years experience", "react", "python",
            "typescript", "React Native", "experience", "Senior", "Mid-Level",
            "Junior", "Remote", "Austin", "San Francisco, CA", "New York, NY",
            "Seattle, WA", "Austin, TX", "Dallas, TX", "Full-time",
            "Contract", "contract", "Go"}
        |-> LowerByChar(s)]

\* str.lower()
Lower(s) == IF s \in DOMAIN LowerOnce THEN LowerOnce[s] ELSE LowerByChar(s)

\* pairs of strings that are tested again and again for "a in b": the test
\* of each pair is computed once
ContainsOnce ==
    LET words == {LowerOnce[s] : s \in DOMAIN LowerOnce}
                     \cup {"senior", "mid", "remote"}
    IN  [a \in words |-> {b \in words : ContainsAt(a, b)}]

\* "a in b" on two strings
Contains(a, b) ==
    IF a \in DOMAIN ContainsOnce /\ b \in DOMAIN ContainsOnce
    THEN b \in ContainsOnce[a] ELSE ContainsAt(a, b)

\* s.split(sep), for a separator no two occurrences of which overlap
Split(s, sep) ==
    TheOne({[k \in 1..(Cardinality(cuts) + 1) |->
                SubSeq(s, IF k = 1 THEN 1 ELSE Nth(cuts, k - 1) + Len(sep),
                          IF k > Cardinality(cuts) THEN Len(s)
                          ELSE Nth(cuts, k) - 1)] :
               cuts \in {{i \in 1..(Len(s) - Len(sep) + 1) :
                            SubSeq(s, i, i + Len(sep) - 1) = sep}}})

\* set(x.lower() for x in list)
LowerSet(list) == {Lower(list[i]) : i \in 1..Len(list)}

\* Python numbers that are not integers, as fractions
Rat(n, d) == [num |-> n, den |-> d]
RatAdd(a, b) == Rat(a.num * b.den + b.num * a.den, a.den * b.den)
RatMul(a, k) == Rat(a.num * k, a.den)
RatLess(a, b) == a.num * b.den < b.num * a.den
RatMax(a, b) == IF RatLess(a, b) THEN b ELSE a
RatPositive(a) == a.num > 0

\* int(x): the fraction cut off towards zero
IntOf(a) == IF a.num >= 0 THEN a.num \div a.den ELSE -((-a.num) \div a.den)

Min(a, b) == IF a < b THEN a ELSE b
Max(a, b) == IF a < b THEN b ELSE a

\* list[:n]
Take(list, n) == SubSeq(list, 1, Min(n, Len(list)))

\* JSON values
Str(s) == [t |-> "str", v |-> s]
Null == [t |-> "null"]
Num(n) == [t |-> "num", v |-> n]
Obj(d) == [t |-> "dict", v |-> d]

\* "nothing yet" for a variable that will hold a dict
Unset == [unset |-> TRUE]

-----------------------------------------------------------------------------
(* RealJobSearchAPI: what the providers can answer *)

\* the postings a JSearch answer is made of: a full one, one without city,
\* state, logo and salary, one whose city is null, one with a minimum
\* salary only
JSearchItems ==
    { [job_id |-> Str("j1"), job_city |-> Str("Austin"), job_state |-> Str("TX"),
       employer_logo |-> Str("https://logo.example/j1.png"),
       job_min_salary |-> Num(50000), job_max_salary |-> Num(1250000)],
      [job_id |-> Str("j2")],
      [job_id |-> Str("j3"), job_city |-> Null, job_state |-> Str("TX")],
      [job_id |-> Str("j4"), job_city |-> Str("Reno"), job_state |-> Str("NV"),
       employer_logo |-> Null, job_min_salary |-> Num(60000),
       job_max_salary |-> Null, job_salary_currency |-> Str("EUR")] }

\* the postings an Adzuna answer is made of: a full one with a maximum
\* salary, one without location and salary, one whose location is null
AdzunaItems ==
    { [id |-> Str("a1"), location |-> Obj([display_name |-> Str("London")]),
       salary_max |-> Num(900)],
      [id |-> Str("a2")],
      [id |-> Str("a3"), location |-> Null] }

\* the body of a 200 answer: not JSON, or a JSON object
JSearchBodies ==
    {[json |-> FALSE], [json |-> TRUE, data |-> EmptyDict]}
    \cup {[json |-> TRUE, data |-> [data |-> items]] :
              items \in SeqsUpTo(JSearchItems, MaxItems)}

AdzunaBodies ==
    {[json |-> FALSE], [json |-> TRUE, data |-> EmptyDict]}
    \cup {[json |-> TRUE, data |-> [results |-> items]] :
              items \in SeqsUpTo(AdzunaItems, MaxItems)}
    \cup {[json |-> TRUE, data |-> [results |-> <<>>, count |-> 57]]}

ErrorStatuses == {401, 429, 500}

RequestExceptions == {"Timeout", "ConnectionError"}

\* what requests.get does: it raises, or it returns a response
Responses(bodies) ==
    {[kind |-> "raise", exc |-> e] : e \in RequestExceptions}
    \cup {[kind |-> "http", status |-> s] : s \in ErrorStatuses}
    \cup {[kind |-> "http", status |-> 200, body |-> b] : b \in bodies}

JSearchResponses == Responses(JSearchBodies)

AdzunaResponses == Responses(AdzunaBodies)

-----------------------------------------------------------------------------
(* RealJobSearchAPI: results *)

_create_error_response(error_message) ==
    [success |-> FALSE, error |-> error_message, jobs |-> <<>>]

_create_setup_instructions ==
    [success |-> FALSE,
     error |-> "No job search APIs configured",
     setup_instructions |->
        [jsearch_rapidapi |->
            [description |-> "Best option - aggregates jobs from Google, Indeed, LinkedIn",
             signup_url |-> "https://rapidapi.com/letscrape-6bRBa3QguO5/api/jsearch",
             free_tier |-> "150 requests/month",
             env_variable |-> "RAPIDAPI_KEY"],
         adzuna |->
            [description |-> "Good alternative - direct API access",
             signup_url |-> "https://developer.adzuna.com/",
             free_tier |-> "1,000 requests/month",
             env_variables |-> <<"ADZUNA_APP_ID", "ADZUNA_APP_KEY">>]],
     next_steps |->
        <<"1. Sign up for JSearch at RapidAPI (recommended)",
          "2. Get your API key and set RAPIDAPI_KEY environment variable",
          "3. Alternatively, sign up for Adzuna API",
          "4. Restart your application after setting environment variables">>,
     jobs |-> <<>>]

\* the outcome of a piece of code: a value, or an exception
Returned(v) == [raised |-> FALSE, ret |-> v]
Raises(e) == [raised |-> TRUE, exc |-> e]

\* a + ", " + b on two JSON values: a TypeError unless both are strings
ConcatLocation(a, b) ==
    IF a.t = "str" /\ b.t = "str"
    THEN Returned(Str(a.v \o ", " \o b.v))
    ELSE Raises("TypeError")

\* the digits of k, three of them
Pad3(k) ==
    IF k < 10 THEN "00" \o ToString(k)
    ELSE IF k < 100 THEN "0" \o ToString(k) ELSE ToString(k)

\* f"{n:,.0f}" for a whole number n >= 0
RECURSIVE Thousands(_)
Thousands(n) ==
    IF n < 1000 THEN ToString(n)
    ELSE Thousands(n \div 1000) \o "," \o Pad3(n % 1000)

\* the truth value of an Optional[float]
TruthyNumber(x) == x.t = "num" /\ x.v # 0

\* _format_salary(min_sal, max_sal, currency)
_format_salary(min_sal, max_sal, currency) ==
    IF ~TruthyNumber(min_sal) /\ ~TruthyNumber(max_sal) THEN "Not specified"
    ELSE IF TruthyNumber(min_sal) /\ TruthyNumber(max_sal)
    THEN "$" \o Thousands(min_sal.v) \o " - $" \o Thousands(max_sal.v)
         \o " " \o currency
    ELSE IF TruthyNumber(min_sal)
    THEN "$" \o Thousands(min_sal.v) \o "+ " \o currency
    ELSE "Up to $" \o Thousands(max_sal.v) \o " " \o currency

\* _format_adzuna_salary(job_data)
_format_adzuna_salary(job_data) ==
    LET salary_min == Get(job_data, "salary_min", Null)
        salary_max == Get(job_data, "salary_max", Null)
    IN  IF TruthyNumber(salary_min) \/ TruthyNumber(salary_max)
        THEN _format_salary(salary_min, salary_max, "USD")
        ELSE "Not specified"

\* one posting of _format_jsearch_response; of its fields, the id, the logo,
\* the location, the salary and the source are kept
JSearchJob(job_data) ==
    LET loc == ConcatLocation(Get(job_data, "job_city", Str("")),
                              Get(job_data, "job_state", Str("")))
    IN  IF loc.raised THEN loc
        ELSE Returned([id |-> Get(job_data, "job_id", Str("")),
                       company_logo |-> Get(job_data, "employer_logo", Null),
                       location |-> loc.ret,
                       salary |-> Str(_format_salary(
                           Get(job_data, "job_min_salary", Null),
                           Get(job_data, "job_max_salary", Null),
                           Get(job_data, "job_salary_currency", Str("USD")).v)),
                       source |-> "JSearch"])

\* a posting of _format_adzuna_response that names JSearch as its source
AdzunaJob_OtherSource(job_data) ==
    Returned([id |-> Get(job_data, "id", Str("")),
              company_logo |-> Null,
              location |-> Str(""),
              salary |-> Str("Not specified"),
              source |-> "JSearch"])

\* one posting of _format_adzuna_response:
\* job_data.get("location", {}).get("display_name", "")
AdzunaJob(job_data) ==
    LET loc == Get(job_data, "location", Obj(EmptyDict))
    IN  IF loc.t # "dict" THEN Raises("AttributeError")
        ELSE Returned([id |-> Get(job_data, "id", Str("")),
                       company_logo |-> Null,
                       location |-> Get(loc.v, "display_name", Str("")),
                       salary |-> Str(_format_adzuna_salary(job_data)),
                       source |-> "Adzuna"])

_format_jsearch_response(data) ==
    LET items == Get(data, "data", <<>>)
        made == [i \in 1..Len(items) |-> JSearchJob(items[i])]
    IN  IF \E i \in 1..Len(items) : made[i].raised
        THEN Raises(made[CHOOSE i \in 1..Len(items) :
                             made[i].raised /\ \A j \in 1..(i-1) : ~made[j].raised].exc)
        ELSE LET jobs == [i \in 1..Len(items) |-> made[i].ret]
             IN  Returned([success |-> TRUE,
                           api_used |-> "JSearch (RapidAPI)",
                           total_results |-> Len(jobs),
                           jobs |-> jobs,
                           api_limit_info |-> "150 requests/month (Free tier)"])

_format_adzuna_response(data) ==
    LET items == Get(data, "results", <<>>)
        made == [i \in 1..Len(items) |-> AdzunaJob(items[i])]
    IN  IF \E i \in 1..Len(items) : made[i].raised
        THEN Raises(made[CHOOSE i \in 1..Len(items) :
                             made[i].raised /\ \A j \in 1..(i-1) : ~made[j].raised].exc)
        ELSE LET jobs == [i \in 1..Len(items) |-> made[i].ret]
             IN  Returned([success |-> TRUE,
                           api_used |-> "Adzuna",
                           total_results |-> Get(data, "count", Len(jobs)),
                           jobs |-> jobs,
                           api_limit_info |-> "1,000 requests/month (Free tier)"])

-----------------------------------------------------------------------------
(* RealJobSearchAPI: the provider adapters *)

\* the try block of search_jobs_jsearch, given what requests.get does
JSearchTryBlock(resp) ==
    IF resp.kind = "raise" THEN Raises(resp.exc)
    ELSE IF resp.status = 200
         THEN IF ~resp.body.json THEN Raises("ValueError")
              ELSE _format_jsearch_response(resp.body.data)
         ELSE Returned(_create_error_response(
                  "JSearch API error: " \o ToString(resp.status) \o
                  (IF resp.status = 429
                   THEN " - Rate limit exceeded (150 requests/month limit reached)"
                   ELSE IF resp.status = 401 THEN " - Invalid API key" ELSE "")))

\* the try block of search_jobs_adzuna, given what requests.get does
AdzunaTryBlock(resp) ==
    IF resp.kind = "raise" THEN Raises(resp.exc)
    ELSE IF resp.status = 200
         THEN IF ~resp.body.json THEN Raises("ValueError")
              ELSE _format_adzuna_response(resp.body.data)
         ELSE Returned(_create_error_response(
                  "Adzuna API error: " \o ToString(resp.status)))

\* search_jobs_jsearch with an except clause for the exceptions of requests only
search_jobs_jsearch_NarrowExcept(c, resp) ==
    IF ~Truthy(c.jsearch_api_key)
    THEN [requests |-> <<>>] @@ Returned(_create_error_response(
             "JSearch API key not configured. Get free key from RapidAPI.com"))
    ELSE LET body == JSearchTryBlock(resp)
         IN  [requests |-> <<[api |-> "JSearch"]>>] @@
             (IF body.raised /\ body.exc \in RequestExceptions
              THEN Returned(_create_error_response(
                       "JSearch API request failed: " \o body.exc))
              ELSE body)

\* search_jobs_jsearch that issues its request a second time
search_jobs_jsearch_Retry(c, resp) ==
    IF ~Truthy(c.jsearch_api_key)
    THEN [requests |-> <<>>] @@ Returned(_create_error_response(
             "JSearch API key not configured. Get free key from RapidAPI.com"))
    ELSE LET body == JSearchTryBlock(resp)
         IN  [requests |-> <<[api |-> "JSearch"], [api |-> "JSearch"]>>] @@
             (IF body.raised
              THEN Returned(_create_error_response(
                       "JSearch API request failed: " \o body.exc))
              ELSE body)

\* search_jobs_jsearch(query, location): the requests it issues and its outcome
search_jobs_jsearch(c, resp) ==
    IF ~Truthy(c.jsearch_api_key)
    THEN [requests |-> <<>>] @@ Returned(_create_error_response(
             "JSearch API key not configured. Get free key from RapidAPI.com"))
    ELSE LET body == JSearchTryBlock(resp)
         IN  [requests |-> <<[api |-> "JSearch"]>>] @@
             (IF body.raised
              THEN Returned(_create_error_response(
                       "JSearch API request failed: " \o body.exc))
              ELSE body)

\* search_jobs_adzuna(query, location, results_per_page)
search_jobs_adzuna(c, resp) ==
    IF ~Truthy(c.adzuna_app_id) \/ ~Truthy(c.adzuna_app_key)
    THEN [requests |-> <<>>] @@ Returned(_create_error_response(
             "Adzuna API credentials not configured"))
    ELSE LET body == AdzunaTryBlock(resp)
         IN  [requests |-> <<[api |-> "Adzuna"]>>] @@
             (IF body.raised
              THEN Returned(_create_error_response(
                       "Adzuna API request failed: " \o body.exc))
              ELSE body)

-----------------------------------------------------------------------------
(* RealJobSearchAPI.search_jobs_with_fallback *)

\* "if self.jsearch_api_key:"
JSearchConfigured(c) == Truthy(c.jsearch_api_key)

\* "if self.adzuna_app_id or self.adzuna_app_key:", one credential being enough
AdzunaConfigured_Either(c) == Truthy(c.adzuna_app_id) \/ Truthy(c.adzuna_app_key)

\* "if self.adzuna_app_id and self.adzuna_app_key:"
AdzunaConfigured(c) == Truthy(c.adzuna_app_id) /\ Truthy(c.adzuna_app_key)

\* the JSearch result is never taken, so Adzuna is asked as well
JSearchAccepted_Never(res) == FALSE

\* "if result.get("success") and len(result.get("jobs", [])) > 0:"
JSearchAccepted(res) ==
    Get(res, "success", FALSE) /\ Len(Get(res, "jobs", <<>>)) > 0

\* whatever Adzuna answered is returned, its failure too
AdzunaAccepted_Always(res) == TRUE

\* "if result.get("success"):"
AdzunaAccepted(res) == Get(res, "success", FALSE)

\* os.getenv of the three credentials in __init__
Configs ==
    [jsearch_api_key : {"", "rapid-key"},
     adzuna_app_id : {"", "app-id"},
     adzuna_app_key : {"", "app-key"}]

\* the credentials where no RealJobSearchAPI is constructed
NoConfig == [jsearch_api_key |-> "", adzuna_app_id |-> "", adzuna_app_key |-> ""]

\* search_jobs_with_fallback is called
StartSearch ==
    /\ pc \in {"idle", "done", "raised"}
    /\ pc' = "jsearch"
    /\ calls' = <<>>
    /\ requests' = <<>>
    /\ jresp' = Unset
    /\ jres' = Unset
    /\ aresp' = Unset
    /\ ares' = Unset
    /\ result' = Unset
    /\ UNCHANGED <<cfg, notFbVars>>

\* "Try JSearch first": the guard, the call and the test of its result
TryJSearch ==
    /\ pc = "jsearch"
    /\ IF JSearchConfigured(cfg)
       THEN \E resp \in JSearchResponses :
              LET out == search_jobs_jsearch(cfg, resp)
              IN  /\ calls' = Append(calls, "JSearch")
                  /\ requests' = requests \o out.requests
                  /\ jresp' = IF out.requests # <<>> THEN resp ELSE Unset
                  /\ IF out.raised
                     THEN /\ pc' = "raised"
                          /\ UNCHANGED <<jres, result>>
                     ELSE /\ jres' = out.ret
                          /\ IF JSearchAccepted(out.ret)
                             THEN pc' = "done" /\ result' = out.ret
                             ELSE pc' = "adzuna" /\ UNCHANGED result
       ELSE /\ pc' = "adzuna"
            /\ UNCHANGED <<calls, requests, jresp, jres, result>>
    /\ UNCHANGED <<cfg, aresp, ares, notFbVars>>

\* "Fallback to Adzuna": the guard, the call, the test of its result, and the
\* setup instructions when nothing was returned before
TryAdzuna ==
    /\ pc = "adzuna"
    /\ IF AdzunaConfigured(cfg)
       THEN \E resp \in AdzunaResponses :
              LET out == search_jobs_adzuna(cfg, resp)
              IN  /\ calls' = Append(calls, "Adzuna")
                  /\ requests' = requests \o out.requests
                  /\ aresp' = IF out.requests # <<>> THEN resp ELSE Unset
                  /\ IF out.raised
                     THEN /\ pc' = "raised"
                          /\ UNCHANGED <<ares, result>>
                     ELSE /\ ares' = out.ret
                          /\ pc' = "done"
                          /\ result' = IF AdzunaAccepted(out.ret)
                                       THEN out.ret
                                       ELSE _create_setup_instructions
       ELSE /\ pc' = "done"
            /\ result' = _create_setup_instructions
            /\ UNCHANGED <<calls, requests, aresp, ares>>
    /\ UNCHANGED <<cfg, jresp, jres, notFbVars>>

FbNext == StartSearch \/ TryJSearch \/ TryAdzuna

-----------------------------------------------------------------------------
(* JobSearcherAgent.calculate_job_score *)

SkillTokens == {"Python", "python", "AWS"}

\* the last list is that of a job with three required skills
RequiredSkillLists ==
    SeqsUpTo(SkillTokens, MaxSkills) \cup {<<"Python", "AWS", "React">>}

CandidateSkillLists ==
    {<<>>, <<"python">>, <<"AWS">>, <<"Python", "AWS">>, <<"python", "Python">>}

\* the job postings that are scored
Jobs ==
    {s @@ e @@ l @@ d :
        s \in Opt("required_skills", RequiredSkillLists),
        e \in Opt("experience_level", {"Mid-Level", "Junior"}),
        l \in {[location |-> "Remote"],
               [location |-> "Austin, TX", remote_ok |-> TRUE],
               [location |-> "Dallas, TX", remote_ok |-> FALSE]},
        d \in Opt("posted_days_ago", {-60, 0, 3, 45})}

\* the resume data they are scored against
Resumes ==
    {s @@ e @@ l :
        s \in Opt("skills", CandidateSkillLists),
        e \in Opt("experience_level", {"Senior", "Mid-Level"}),
        l \in Opt("preferred_location", {"Remote", "Austin"})}

skills_weight == 50
exp_weight == 20
location_weight == 15
recency_weight == 15

\* the skills match taken over the first required skill only
SkillsPoints_FirstOnly(job, resume_data) ==
    LET candidate_skills == LowerSet(Get(resume_data, "skills", <<>>))
        job_skills == LowerSet(Take(Get(job, "required_skills", <<>>), 1))
    IN  IF job_skills # {}
        THEN RatMul(Rat(Cardinality(candidate_skills \cap job_skills),
                        Cardinality(job_skills)), skills_weight)
        ELSE Rat(0, 1)

\* skills_match * skills_weight, 0 when the job lists no skills
SkillsPoints(job, resume_data) ==
    LET candidate_skills == LowerSet(Get(resume_data, "skills", <<>>))
        job_skills == LowerSet(Get(job, "required_skills", <<>>))
    IN  IF job_skills # {}
        THEN RatMul(Rat(Cardinality(candidate_skills \cap job_skills),
                        Cardinality(job_skills)), skills_weight)
        ELSE Rat(0, 1)

exp_match(job, resume_data) ==
    LET candidate_exp == Lower(Get(resume_data, "experience_level", ""))
        job_exp == Lower(Get(job, "experience_level", ""))
    IN  IF candidate_exp = job_exp THEN Rat(1, 1)
        ELSE IF Contains("senior", candidate_exp) /\ Contains("mid", job_exp)
             THEN Rat(8, 10)
        ELSE IF Contains("mid", candidate_exp) /\ Contains("junior", job_exp)
             THEN Rat(6, 10)
        ELSE Rat(0, 1)

location_match(job, resume_data) ==
    LET preferred_location == Lower(Get(resume_data, "preferred_location", ""))
        job_location == Lower(Get(job, "location", ""))
    IN  IF Get(job, "remote_ok", FALSE) /\ Contains("remote", preferred_location)
        THEN Rat(1, 1)
        ELSE IF Contains(preferred_location, job_location) THEN Rat(1, 1)
        ELSE IF Contains("remote", job_location) THEN Rat(7, 10)
        ELSE Rat(0, 1)

\* max(0, (30 - days_old) / 30)
recency_score(job) ==
    LET days_old == Get(job, "posted_days_ago", 30)
    IN  RatMax(Rat(0, 1), Rat(30 - days_old, 30))

\* the sum before "Normalize to 0-100"
RawScore(job, resume_data) ==
    RatAdd(RatAdd(RatAdd(SkillsPoints(job, resume_data),
                         RatMul(exp_match(job, resume_data), exp_weight)),
                  RatMul(location_match(job, resume_data), location_weight)),
           RatMul(recency_score(job), recency_weight))

\* calculate_job_score with "final_score = int(score)"
calculate_job_score_Unclamped(job, resume_data) ==
    IntOf(RawScore(job, resume_data))

\* calculate_job_score with "final_score = int(score) % 100"
calculate_job_score_Modulo(job, resume_data) ==
    IntOf(RawScore(job, resume_data)) % 100

\* calculate_job_score(job, resume_data)
calculate_job_score(job, resume_data) ==
    Min(100, Max(0, IntOf(RawScore(job, resume_data))))

NoVariant == [kind |-> "none"]

NotScored == Unset

\* calculate_job_score(sjob, sresume) is called
ScoreJob ==
    /\ sscore = NotScored
    /\ sscore' = Returned(calculate_job_score(sjob, sresume))
    /\ UNCHANGED <<sjob, sresume, svariant, notScVars>>

Orders(n) == {p \in [1..n -> 1..n] : \A i, j \in 1..n : p[i] = p[j] => i = j}

Reordered(list, p) == [i \in 1..Len(list) |-> list[p[i]]]

\* calculate_job_score is called again with the job's required skills in
\* another order
ScoreReorderedJob ==
    /\ sscore # NotScored
    /\ svariant = NoVariant
    /\ "required_skills" \in DOMAIN sjob
    /\ \E p \in Orders(Len(sjob.required_skills)) :
          LET job == [sjob EXCEPT !.required_skills = Reordered(@, p)]
          IN  svariant' = [kind |-> "reordered", job |-> job, resume |-> sresume,
                           score |-> calculate_job_score(job, sresume)]
    /\ UNCHANGED <<sjob, sresume, sscore, notScVars>>

\* calculate_job_score is called again with the candidate's skills in another
\* order
ScoreReorderedResume ==
    /\ sscore # NotScored
    /\ svariant = NoVariant
    /\ "skills" \in DOMAIN sresume
    /\ \E p \in Orders(Len(sresume.skills)) :
          LET resume_data == [sresume EXCEPT !.skills = Reordered(@, p)]
          IN  svariant' = [kind |-> "reordered", job |-> sjob, resume |-> resume_data,
                           score |-> calculate_job_score(sjob, resume_data)]
    /\ UNCHANGED <<sjob, sresume, sscore, notScVars>>

WithSkill(d, k, s) == (k :> Append(Get(d, k, <<>>), s)) @@ d

MatchingSkills(job, resume_data) ==
    LowerSet(Get(resume_data, "skills", <<>>))
        \cap LowerSet(Get(job, "required_skills", <<>>))

\* calculate_job_score is called again after one more skill was given to the
\* candidate, or to the candidate and the job
ScoreWithAddedSkill ==
    /\ sscore # NotScored
    /\ svariant = NoVariant
    /\ \E s \in SkillTokens \cup {"React"}, both \in BOOLEAN :
          LET resume_data == WithSkill(sresume, "skills", s)
              job == IF both THEN WithSkill(sjob, "required_skills", s) ELSE sjob
          IN  svariant' = [kind |-> "added", job |-> job, resume |-> resume_data,
                           score |-> calculate_job_score(job, resume_data)]
    /\ UNCHANGED <<sjob, sresume, sscore, notScVars>>

ScNext ==
    ScoreJob \/ ScoreReorderedJob \/ ScoreReorderedResume \/ ScoreWithAddedSkill

-----------------------------------------------------------------------------
(* JobSearcherAgent.search_jobs and filter_jobs_by_criteria *)

\* self.mock_jobs as __init__ makes it ("salary_range" and "description",
\* which no step of the modelled code reads, are left out)
SearcherMockJobs ==
    << [id |-> "job_001", title |-> "Senior React Developer",
        company |-> "TechFlow Inc", location |-> "San Francisco, CA",
        type |-> "Full-time",
        required_skills |-> <<"React", "TypeScript", "JavaScript", "Node.js",
                              "GraphQL", "AWS">>,
        experience_level |-> "Senior", remote_ok |-> TRUE,
        posted_days_ago |-> 2],
       [id |-> "job_002", title |-> "Full Stack Engineer",
        company |-> "StartupX", location |-> "Remote",
        type |-> "Full-time",
        required_skills |-> <<"React", "Node.js", "Python", "PostgreSQL",
                              "Docker">>,
        experience_level |-> "Mid-Level", remote_ok |-> TRUE,
        posted_days_ago |-> 1],
       [id |-> "job_003", title |-> "Frontend Developer",
        company |-> "DesignCorp", location |-> "New York, NY",
        type |-> "Full-time",
        required_skills |-> <<"React", "CSS", "JavaScript", "Figma", "HTML">>,
        experience_level |-> "Junior", remote_ok |-> FALSE,
        posted_days_ago |-> 3],
       [id |-> "job_004", title |-> "DevOps Engineer",
        company |-> "CloudTech", location |-> "Seattle, WA",
        type |-> "Full-time",
        required_skills |-> <<"AWS", "Kubernetes", "Docker", "Terraform",
                              "Python", "Linux">>,
        experience_level |-> "Senior", remote_ok |-> TRUE,
        posted_days_ago |-> 1],
       [id |-> "job_005", title |-> "Python Backend Developer",
        company |-> "DataSoft", location |-> "Austin, TX",
        type |-> "Contract",
        required_skills |-> <<"Python", "Django", "PostgreSQL", "Redis",
                              "REST APIs">>,
        experience_level |-> "Mid-Level", remote_ok |-> TRUE,
        posted_days_ago |-> 4] >>

\* the skills of the candidates that search; the last list is that of the
\* sample resume of run_agent
SearcherSkillLists ==
    {<<"react">>, <<"AWS">>, <<"react", "Python", "AWS">>,
     <<"React", "TypeScript", "Node.js", "Python", "AWS", "JavaScript">>}

\* the resume data given to JobSearcherAgent.search_jobs: candidates without
\* a preferred location, and the sample resume of run_agent
SearcherResumes ==
    {[skills |-> s] @@ e :
        s \in SearcherSkillLists,
        e \in Opt("experience_level", {"Senior", "Mid-Level"})}
    \cup {[skills |-> <<"React", "TypeScript", "Node.js", "Python", "AWS",
                        "JavaScript">>,
           experience_level |-> "Senior", preferred_location |-> "Remote"]}

\* orders in which list(matching_skills) can enumerate the lower-cased skills
\* of the candidates
SetOrders ==
    {<<"aws", "javascript", "node.js", "python", "react", "typescript">>,
     <<"typescript", "react", "python", "node.js", "javascript", "aws">>}

\* list(s) for a set s of str
ListOfSet(s, order) == SelectSeq(order, LAMBDA x : x \in s)

\* sep.join(list)
RECURSIVE Join(_, _)
Join(list, sep) ==
    IF Len(list) = 0 THEN ""
    ELSE IF Len(list) = 1 THEN list[1]
    ELSE list[1] \o sep \o Join(Tail(list), sep)

\* get_match_reasons(job, resume_data)
get_match_reasons(job, resume_data, order) ==
    LET matching_skills == MatchingSkills(job, resume_data)
        skills_str == Join(Take(ListOfSet(matching_skills, order), 3), ", ")
        candidate_exp == Lower(Get(resume_data, "experience_level", ""))
        job_exp == Lower(Get(job, "experience_level", ""))
    IN  (IF matching_skills # {}
         THEN <<"Strong skills match: " \o skills_str>> ELSE <<>>)
        \o (IF candidate_exp = job_exp
            THEN <<"Perfect experience level match: " \o job_exp>> ELSE <<>>)
        \o (IF Get(job, "remote_ok", FALSE)
            THEN <<"Offers remote work flexibility">> ELSE <<>>)
        \o (IF Get(job, "posted_days_ago", 30) <= 3
            THEN <<"Recently posted (fresh opportunity)">> ELSE <<>>)

\* the score a job must exceed to be included by JobSearcherAgent.search_jobs
SearcherCutoff == 50

\* "if score >= 50"
SearcherIncludes_AtLeast(score) == score >= SearcherCutoff

\* "if score > 50"
SearcherIncludes(score) == score > SearcherCutoff

\* one pass of the loop of JobSearcherAgent.search_jobs: the dict of the job
\* after it
SearcherScored(job, resume_data, order) ==
    LET score == calculate_job_score(job, resume_data)
    IN  IF SearcherIncludes(score)
        THEN ("match_score" :> score)
             @@ ("match_reasons" :> get_match_reasons(job, resume_data, order))
             @@ job
        ELSE job

\* list.sort, reverse=True, with key ascending and the result reversed: one
\* element more, put before the elements of its match_score
InsertByScore_BeforeTies(sorted, j, jobs) ==
    LET k == Cardinality({i \in 1..Len(sorted) :
                 jobs[sorted[i]].match_score > jobs[j].match_score})
    IN  SubSeq(sorted, 1, k) \o <<j>> \o SubSeq(sorted, k + 1, Len(sorted))

\* list.sort(key=lambda x: x['match_score'], reverse=True), one element more:
\* the sort is stable, so the element goes behind the elements of its
\* match_score that precede it in the list
InsertByScore(sorted, j, jobs) ==
    LET k == Cardinality({i \in 1..Len(sorted) :
                 jobs[sorted[i]].match_score >= jobs[j].match_score})
    IN  SubSeq(sorted, 1, k) \o <<j>> \o SubSeq(sorted, k + 1, Len(sorted))

\* scored_jobs.sort(key=lambda x: x['match_score'], reverse=True)
RECURSIVE SortByMatchScore(_, _)
SortByMatchScore(list, jobs) ==
    IF Len(list) = 0 THEN <<>>
    ELSE InsertByScore(SortByMatchScore(SubSeq(list, 1, Len(list) - 1), jobs),
                       list[Len(list)], jobs)

\* scored_jobs after the loop: the positions in 1..n of the jobs that were
\* appended, in the order of the loop
Appended(n, included) == SelectSeq([i \in 1..n |-> i], LAMBDA i : included[i])

\* a returned list in the hands of its caller: list holds the positions of
\* its dicts in jobs, and the dicts are those of self.mock_jobs (shared) or
\* those of the local list jobs of the call; returned holds the dicts as they
\* were when the call returned
KeptList(list, jobs, shared) ==
    [list |-> list, shared |-> shared,
     jobs |-> IF shared THEN <<>> ELSE jobs,
     returned |-> [n \in 1..Len(list) |-> jobs[list[n]]]]

\* JobSearcherAgent.search_jobs(resume_data)
JobSearcherAgent_search_jobs ==
    /\ agent = "JobSearcherAgent"
    /\ searches < MaxSearches
    /\ \E resume_data \in SearcherResumes :
          LET jobs == [i \in 1..Len(mock_jobs) |->
                          SearcherScored(mock_jobs[i], resume_data, set_order)]
              appended == Appended(Len(mock_jobs), [i \in 1..Len(mock_jobs) |->
                  SearcherIncludes(calculate_job_score(mock_jobs[i], resume_data))])
          IN  /\ mock_jobs' = jobs
              /\ scored_jobs' = SortByMatchScore(appended, mock_jobs')
              /\ aresume' = resume_data
              /\ matching_jobs' =
                    IF searches = 0
                    THEN KeptList(scored_jobs', mock_jobs', TRUE)
                    ELSE matching_jobs
    /\ searches' = searches + 1
    /\ criteria' = Unset
    /\ filtered' = <<>>
    /\ UNCHANGED <<agent, set_order, audit_logs, notAgVars>>

\* the criteria given to filter_jobs_by_criteria; the sample criteria of
\* run_agent are among them
Criteria ==
    {t @@ r @@ m :
        t \in Opt("job_type", {"Full-time", "contract"}),
        r \in Opt("remote_only", {TRUE}),
        m \in Opt("min_score", {60, 70})}

\* filter_jobs_by_criteria(jobs, criteria), jobs being a list of positions in
\* the dicts all_jobs
filter_jobs_by_criteria(jobs, crit, all_jobs) ==
    LET by_type ==
            IF Get(crit, "job_type", "") # ""
            THEN SelectSeq(jobs, LAMBDA j :
                     Contains(Lower(crit.job_type),
                              Lower(Get(all_jobs[j], "type", ""))))
            ELSE jobs
        by_remote ==
            IF Get(crit, "remote_only", FALSE)
            THEN SelectSeq(by_type, LAMBDA j : Get(all_jobs[j], "remote_ok", FALSE))
            ELSE by_type
        min_score == Get(crit, "min_score", 0)
    IN  SelectSeq(by_remote, LAMBDA j :
            Get(all_jobs[j], "match_score", 0) >= min_score)

\* JobSearcherAgent.filter_jobs_by_criteria(matching_jobs, criteria) on the
\* list search_jobs returned, as run_agent calls it: once for a search (the
\* call changes nothing of the agent)
FilterJobsByCriteria ==
    /\ agent = "JobSearcherAgent"
    /\ searches > 0
    /\ criteria = Unset
    /\ \E crit \in Criteria :
          /\ criteria' = crit
          /\ filtered' = filter_jobs_by_criteria(scored_jobs, crit, mock_jobs)
    /\ UNCHANGED <<agent, set_order, mock_jobs, audit_logs, searches, aresume,
                   scored_jobs, matching_jobs, notAgVars>>

-----------------------------------------------------------------------------
(* CompleteJobApplicationAgent.search_jobs *)

\* mock_jobs as search_jobs makes it at every call ("salary_range",
\* "description" and "posted_date", which no step of the modelled code reads,
\* are left out)
CompleteMockJobs ==
    << [id |-> "job_001", title |-> "Senior Full Stack Developer",
        company |-> "TechFlow Inc", location |-> "San Francisco, CA",
        type |-> "Full-time", remote_ok |-> TRUE,
        requirements |-> <<"React", "TypeScript", "Node.js", "AWS",
                           "5+ years experience">>],
       [id |-> "job_002", title |-> "Lead Frontend Developer",
        company |-> "InnovateTech", location |-> "Remote",
        type |-> "Full-time", remote_ok |-> TRUE,
        requirements |-> <<"React", "TypeScript", "Leadership",
                           "4+ years experience">>],
       [id |-> "job_003", title |-> "Senior Python Developer",
        company |-> "DataCorp", location |-> "New York, NY",
        type |-> "Full-time", remote_ok |-> FALSE,
        requirements |-> <<"Python", "Django", "PostgreSQL", "AWS",
                           "3+ years experience">>] >>

\* the resume data given to CompleteJobApplicationAgent.search_jobs
CompleteResumes ==
    Opt("skills",
        {<<>>,
         <<"React", "TypeScript">>,
         <<"react", "typescript", "Node.js">>,
         <<"React Native", "TypeScript", "Node.js">>,
         <<"React", "TypeScript", "Leadership", "Node.js">>,
         <<"Python", "Django", "PostgreSQL", "AWS">>,
         <<"Go", "Python", "PostgreSQL", "AWS">>,
         <<"AWS", "Python", "Django", "React", "TypeScript">>,
         <<"TypeScript", "React", "experience", "Node.js", "AWS", "Leadership">>})

\* the most a match_score of CompleteJobApplicationAgent can be
CompleteCap == 95

\* "Minimum 50% for demo"
CompleteFloor == 50

\* the match_score a job needs to be included by
\* CompleteJobApplicationAgent.search_jobs
CompleteCutoff == 60

\* the match_score search_jobs gives a job; matches / len never has a
\* float error for the lengths 4 and 5 of the requirements of mock_jobs
CompleteMatchScore(job, candidate_skills) ==
    LET job_requirements ==
            [i \in 1..Len(job.requirements) |-> Lower(job.requirements[i])]
        candidate_skills_lower ==
            [i \in 1..Len(candidate_skills) |-> Lower(candidate_skills[i])]
        matches == Cardinality({i \in 1..Len(job_requirements) :
            \E k \in 1..Len(candidate_skills_lower) :
                \/ Contains(candidate_skills_lower[k], job_requirements[i])
                \/ Contains(job_requirements[i], candidate_skills_lower[k])})
        match_score ==
            IF Len(job_requirements) > 0
            THEN Min(CompleteCap,
                     IntOf(RatMul(Rat(matches, Len(job_requirements)), 100)))
            ELSE 0
    IN  Max(CompleteFloor, match_score)

\* job['matching_skills']
CompleteMatchingSkills(job, candidate_skills) ==
    SelectSeq(job.requirements, LAMBDA req :
        \E k \in 1..Len(candidate_skills) :
            Contains(Lower(candidate_skills[k]), Lower(req)))

\* "if match_score >= 60"
CompleteIncludes(match_score) == match_score >= CompleteCutoff

\* log_activity(action, details): a row more in audit_logs, or, when the
\* database fails, "Logging failed" and no row
log_activity(logs, action, details, ok) ==
    IF ok
    THEN Append(logs, [action |-> action, details |-> details,
                       status |-> "success"])
    ELSE logs

\* CompleteJobApplicationAgent.search_jobs(resume_data)
CompleteJobApplicationAgent_search_jobs ==
    /\ agent = "CompleteJobApplicationAgent"
    /\ searches < MaxSearches
    /\ \E resume_data \in CompleteResumes, ok1, ok2 \in BOOLEAN :
          LET candidate_skills == Get(resume_data, "skills", <<>>)
              jobs == [i \in 1..Len(CompleteMockJobs) |->
                  ("match_score" :>
                       CompleteMatchScore(CompleteMockJobs[i], candidate_skills))
                  @@ ("matching_skills" :>
                       CompleteMatchingSkills(CompleteMockJobs[i], candidate_skills))
                  @@ CompleteMockJobs[i]]
              appended == Appended(Len(jobs), [i \in 1..Len(jobs) |->
                              CompleteIncludes(jobs[i].match_score)])
              started == log_activity(audit_logs, "job_search",
                             "Starting job search based on resume", ok1)
          IN  /\ mock_jobs' = jobs
              /\ scored_jobs' = SortByMatchScore(appended, mock_jobs')
              /\ aresume' = resume_data
              /\ matching_jobs' =
                    IF searches = 0
                    THEN KeptList(scored_jobs', mock_jobs', FALSE)
                    ELSE matching_jobs
              /\ audit_logs' = log_activity(started, "jobs_found",
                     "Found " \o ToString(Len(appended)) \o " matching jobs", ok2)
    /\ searches' = searches + 1
    /\ UNCHANGED <<agent, set_order, criteria, filtered, notAgVars>>

AgNext ==
    \/ JobSearcherAgent_search_jobs
    \/ FilterJobsByCriteria
    \/ CompleteJobApplicationAgent_search_jobs

-----------------------------------------------------------------------------
(* RealResumeParser (real_resume_parser.py): text helpers                   *)
(*                                                                         *)
(* A text is a string; a character of it is the string of length one at    *)
(* its position.  The texts of this model are ASCII, so str.isalpha,       *)
(* str.isupper and the classes \w, \s and \d of re are the ASCII classes.  *)
(* Of the contact information only the name and the email are modelled,    *)
(* and the summary of parse_resume is left out: phone, location, linkedin, *)
(* github and summary are computed from the text alone and no modelled     *)
(* step reads them.                                                        *)

DigitChars == <<"0", "1", "2", "3", "4", "5", "6", "7", "8", "9">>

Letters == Range(UpperChars) \cup Range(LowerChars)

Digits == Range(DigitChars)

\* str.isalpha() of one character
IsAlpha(c) == c \in Letters

\* str.isupper() of one character
IsUpper(c) == c \in Range(UpperChars)

\* \d
IsDigit(c) == c \in Digits

\* \w
WordChars == Letters \cup Digits \cup {"_"}

IsWordChar(c) == c \in WordChars

\* \s
SpaceChars == {" ", "\n", "\t", "\r"}

IsSpace(c) == c \in SpaceChars

\* \b at the gap in front of position i (i = Len(s) + 1: the end of s)
BoundaryAt(s, i) ==
    (i > 1 /\ IsWordChar(CharAt(s, i - 1)))
        # (i <= Len(s) /\ IsWordChar(CharAt(s, i)))

\* the position after the longest run of characters of the class that starts
\* at position i (i itself when there is none)
RunEnd(s, i, class) ==
    CHOOSE j \in i..(Len(s) + 1) :
        /\ j > Len(s) \/ CharAt(s, j) \notin class
        /\ \A k \in i..(j - 1) : CharAt(s, k) \in class

\* the first position from i on that holds no character of class \s
SkipSpaces(s, i) == RunEnd(s, i, SpaceChars)

\* the first position from i on that holds a line feed, or the end of s
LineEnd(s, i) ==
    CHOOSE j \in i..(Len(s) + 1) :
        /\ j > Len(s) \/ CharAt(s, j) = "\n"
        /\ \A k \in i..(j - 1) : CharAt(s, k) # "\n"

\* the last position that holds no character of class \s, or 0
LastInk(s) ==
    CHOOSE j \in 0..Len(s) :
        /\ j = 0 \/ ~IsSpace(CharAt(s, j))
        /\ \A k \in (j + 1)..Len(s) : IsSpace(CharAt(s, k))

\* str.strip()
Strip(s) ==
    IF LastInk(s) = 0 THEN "" ELSE SubSeq(s, SkipSpaces(s, 1), LastInk(s))

\* the positions where a run of characters that are not white space starts
WordStarts(s) ==
    {i \in 1..Len(s) :
        ~IsSpace(CharAt(s, i)) /\ (i = 1 \/ IsSpace(CharAt(s, i - 1)))}

\* the run of characters that are not white space from position i on
WordAt(s, i) ==
    SubSeq(s, i, (CHOOSE j \in i..(Len(s) + 1) :
                     /\ j > Len(s) \/ IsSpace(CharAt(s, j))
                     /\ \A k \in i..(j - 1) : ~IsSpace(CharAt(s, k))) - 1)

\* str.split(): the runs of characters that are not white space
SplitWords(s) ==
    TheOne({[k \in 1..Cardinality(starts) |-> WordAt(s, Nth(starts, k))] :
               starts \in {WordStarts(s)}})

UpperMap == [c \in Range(LowerChars) |->
                UpperChars[CHOOSE i \in 1..Len(LowerChars) : LowerChars[i] = c]]

UpperChar(c) == IF c \in DOMAIN UpperMap THEN UpperMap[c] ELSE c

\* str.title() of the characters of s from a to b: a letter that follows a
\* letter is lower-cased, every other letter is upper-cased
RECURSIVE TitleRange(_, _, _)
TitleRange(s, a, b) ==
    IF a > b THEN ""
    ELSE IF a = b
    THEN IF a > 1 /\ IsAlpha(CharAt(s, a - 1)) THEN LowerChar(CharAt(s, a))
         ELSE UpperChar(CharAt(s, a))
    ELSE TheOne({TitleRange(s, a, m) \o TitleRange(s, m + 1, b) :
                    m \in {(a + b) \div 2}})

\* the ASCII characters from the space to the underscore, in the order of
\* their code points 32 to 95; the lower-case letters follow from 97 on
AsciiBelowLower ==
    <<" ", "!", "\"", "#", "$", "%", "&", "'", "(", ")", "*", "+",
      ",", "-", ".", "/", "0", "1", "2", "3", "4", "5", "6", "7",
      "8", "9", ":", ";", "<", "=", ">", "?", "@", "A", "B", "C",
      "D", "E", "F", "G", "H", "I", "J", "K", "L", "M", "N", "O",
      "P", "Q", "R", "S", "T", "U", "V", "W", "X", "Y", "Z", "[",
      "\\", "]", "^", "_">>

\* ord(c)
Ord == [c \in Range(AsciiBelowLower) \cup Range(LowerChars) |->
           IF c \in Range(LowerChars)
           THEN 96 + CHOOSE i \in 1..Len(LowerChars) : LowerChars[i] = c
           ELSE 31 + CHOOSE i \in 1..Len(AsciiBelowLower) :
                         AsciiBelowLower[i] = c]

\* a < b on two str: at the first position where they differ a has ended or
\* holds the lesser character
StrLess(a, b) ==
    \E i \in 1..Len(b) :
        /\ i > Len(a) \/ Ord[CharAt(a, i)] < Ord[CharAt(b, i)]
        /\ \A k \in 1..(i - 1) : k <= Len(a) /\ CharAt(a, k) = CharAt(b, k)

\* sorted(list(s)) for a set s of str
SortedList(s) ==
    TheOne({[k \in 1..Cardinality(strs) |->
                CHOOSE x \in strs :
                    Cardinality({y \in strs : StrLess(y, x)}) = k - 1] :
               strs \in {s}})

\* int(y) for a str y of digits
RECURSIVE IntOfDigits(_)
IntOfDigits(y) ==
    IF Len(y) = 0 THEN 0
    ELSE 10 * IntOfDigits(SubSeq(y, 1, Len(y) - 1))
         + ((CHOOSE i \in 1..10 : DigitChars[i] = CharAt(y, Len(y))) - 1)

\* s[i:].startswith(word)
StartsWith(s, i, word) ==
    i + Len(word) - 1 <= Len(s) /\ SubSeq(s, i, i + Len(word) - 1) = word

\* the heading of a section pattern such as (skills?|technical\s+skills?):
\* each alternative is a list of words with \s+ between them and an optional
\* last letter; HeadEnd is the position after the heading that starts at
\* position i of the lower-cased text, or 0 when none starts there
HeadAlternative(words, optional) == [words |-> words, optional |-> optional]

RECURSIVE WordsEnd(_, _, _, _)
WordsEnd(tl, i, words, k) ==
    IF ~StartsWith(tl, i, words[k]) THEN 0
    ELSE IF k = Len(words) THEN i + Len(words[k])
    ELSE IF i + Len(words[k]) > Len(tl)
            \/ ~IsSpace(CharAt(tl, i + Len(words[k])))
    THEN 0
    ELSE TheOne({WordsEnd(tl, next, words, k + 1) :
                    next \in {SkipSpaces(tl, i + Len(words[k]))}})

AlternativeEnd(tl, i, alt) ==
    TheOne({(IF e # 0 /\ alt.optional # "" /\ StartsWith(tl, e, alt.optional)
             THEN e + 1 ELSE e) :
               e \in {WordsEnd(tl, i, alt.words, 1)}})

HeadEnd(tl, i, heads) ==
    IF \A k \in 1..Len(heads) : AlternativeEnd(tl, i, heads[k]) = 0 THEN 0
    ELSE AlternativeEnd(tl, i,
             heads[CHOOSE k \in 1..Len(heads) :
                      /\ AlternativeEnd(tl, i, heads[k]) # 0
                      /\ \A m \in 1..(k - 1) :
                            AlternativeEnd(tl, i, heads[m]) = 0])

\* the position where the second group of a section pattern starts when the
\* heading ends in front of position e: white space, one ":" or "-" and more
\* white space are skipped
ContentStart(text, e) ==
    TheOne({SkipSpaces(text, IF s <= Len(text) /\ CharAt(text, s) \in {":", "-"}
                             THEN s + 1 ELSE s) :
               s \in {SkipSpaces(text, e)}})

\* re.findall of  (heads)[\s\n]*[:\-]?\s*(.{0,N}?)(?=\n\s*[A-Z][a-z]+:|\n\s*\n|$)
\* with MULTILINE | DOTALL, from position i on: the second groups of the
\* matches.  The lazy group runs to the first place where the lookahead
\* holds, and every alternative of the lookahead holds only at the end of a
\* line; the search for the next match goes on from there.  The texts of
\* this model are shorter than the N characters the group may take.
RECURSIVE SectionContents(_, _, _, _)
SectionContents(text, tl, heads, i) ==
    IF \A b \in i..Len(text) : HeadEnd(tl, b, heads) = 0 THEN {}
    ELSE TheOne({{SubSeq(text, p, LineEnd(text, p) - 1)}
                     \cup SectionContents(text, tl, heads, LineEnd(text, p)) :
                    p \in {ContentStart(text,
                              HeadEnd(tl, CHOOSE b \in i..Len(text) :
                                              /\ HeadEnd(tl, b, heads) # 0
                                              /\ \A k \in i..(b - 1) :
                                                    HeadEnd(tl, k, heads) = 0,
                                      heads))}})
-----------------------------------------------------------------------------
(* RealResumeParser: the extractors                                         *)

\* self.tech_skills
tech_skills ==
    {"python", "javascript", "java", "c++", "c#", "php", "ruby", "go", "rust",
     "swift", "kotlin", "scala", "typescript", "dart", "r", "matlab", "perl",
     "shell", "bash", "c", "objective-c", "lua", "haskell", "erlang",
     "clojure", "f#", "vb.net",
     "react", "angular", "vue.js", "vue", "jquery", "bootstrap", "tailwind",
     "html", "css", "html5", "css3", "sass", "less", "webpack", "vite",
     "next.js", "nuxt.js", "svelte", "ember.js", "backbone.js", "redux",
     "mobx", "vuex", "styled-components",
     "node.js", "express", "django", "flask", "spring", "laravel", "rails",
     "asp.net", "fastapi", "koa", "nestjs", "gin", "fiber", "actix", "rocket",
     "axum",
     "mysql", "postgresql", "mongodb", "redis", "sqlite", "oracle",
     "sql server", "cassandra", "elasticsearch", "dynamodb", "firebase",
     "prisma", "sequelize", "mariadb", "neo4j", "couchdb", "influxdb",
     "cockroachdb", "supabase",
     "aws", "azure", "gcp", "google cloud", "docker", "kubernetes", "jenkins",
     "gitlab ci", "github actions", "terraform", "ansible", "chef", "puppet",
     "vagrant", "nginx", "apache", "cloudflare", "vercel", "netlify", "heroku",
     "machine learning", "deep learning", "tensorflow", "pytorch",
     "scikit-learn", "pandas", "numpy", "jupyter", "tableau", "power bi",
     "spark", "hadoop", "kafka", "airflow", "dbt", "snowflake", "databricks",
     "mlflow", "kubeflow",
     "ios", "android", "react native", "flutter", "xamarin", "ionic",
     "cordova", "unity", "unreal engine", "cocos2d", "phonegap",
     "git", "svn", "jira", "confluence", "slack", "figma", "sketch",
     "photoshop", "linux", "unix", "windows", "macos", "vim", "vscode",
     "intellij", "eclipse", "postman", "insomnia", "swagger", "graphql",
     "rest api", "soap", "grpc",
     "jest", "mocha", "chai", "cypress", "selenium", "junit", "pytest",
     "rspec", "cucumber", "testng", "mockito", "sinon", "enzyme",
     "react testing library",
     "agile", "scrum", "kanban", "waterfall", "lean", "six sigma", "devops",
     "ci/cd", "tdd", "bdd", "pair programming", "code review"}

\* self.experience_keywords
experience_keywords ==
    ("senior" :> <<"senior", "sr.", "lead", "principal", "architect",
                   "head of", "director">>)
    @@ ("mid-level" :> <<"developer", "engineer", "analyst", "specialist",
                         "consultant">>)
    @@ ("junior" :> <<"junior", "jr.", "associate", "trainee", "intern",
                      "entry-level", "graduate">>)

\* self.education_keywords
education_keywords ==
    <<"computer science", "software engineering", "information technology",
      "computer engineering", "electrical engineering", "mathematics",
      "physics", "data science", "artificial intelligence", "cybersecurity",
      "information systems", "business administration", "mba", "bachelor",
      "master", "phd", "doctorate", "degree", "university", "college",
      "institute">>

\* the title-cased forms of the skills and of the education keywords are
\* computed once
TitleOnce ==
    [s \in tech_skills \cup Range(education_keywords) |-> TitleRange(s, 1, Len(s))]

\* str.title()
Title(s) == IF s \in DOMAIN TitleOnce THEN TitleOnce[s] ELSE TitleRange(s, 1, Len(s))

\* re.search(r'\b' + re.escape(skill_lower) + r'\b', text_lower) finds a match
SearchWord(skill_lower, text_lower) ==
    \E i \in 1..(Len(text_lower) - Len(skill_lower) + 1) :
        /\ SubSeq(text_lower, i, i + Len(skill_lower) - 1) = skill_lower
        /\ BoundaryAt(text_lower, i)
        /\ BoundaryAt(text_lower, i + Len(skill_lower))

\* the headings of skills_section_pattern
SkillsHeads ==
    <<HeadAlternative(<<"skill">>, "s"),
      HeadAlternative(<<"technologie">>, "s"),
      HeadAlternative(<<"technical", "skill">>, "s"),
      HeadAlternative(<<"programming", "language">>, "s")>>

\* the skills the first loop of extract_skills finds, over the entire text
SkillsInText(text_lower) ==
    {skill \in tech_skills :
        \E skill_lower \in {Lower(skill)} : SearchWord(skill_lower, text_lower)}

\* the skills the second loop of extract_skills finds, in the skills sections
SkillsInSections(skills_matches) ==
    {skill \in tech_skills :
        \E skill_lower \in {Lower(skill)} :
            \E skills_content \in skills_matches :
                \E content_lower \in {Lower(skills_content)} :
                    ContainsAt(skill_lower, content_lower)}

\* extract_skills(text)
extract_skills(text) ==
    TheOne({SortedList({Title(skill) :
                skill \in SkillsInText(text_lower)
                    \cup SkillsInSections(
                             SectionContents(text, text_lower, SkillsHeads, 1))}) :
               text_lower \in {Lower(text)}})

\* sum(1 for keyword in self.experience_keywords[kind] if keyword in text_lower)
KeywordCount(kind, text_lower) ==
    Cardinality({k \in 1..Len(experience_keywords[kind]) :
                    ContainsAt(experience_keywords[kind][k], text_lower)})

\* [\s\-+]
YearsSeparators == SpaceChars \cup {"-", "+"}

\* [\s\-+]*(?:years?|yrs?)[\s\-+]*(?:of\s+)?(?:experience|exp)  matches at
\* position i
YearsTail(s, i) ==
    \E a \in {RunEnd(s, i, YearsSeparators)} :
    \E b \in (IF StartsWith(s, a, "year") THEN {a + 4}
              ELSE IF StartsWith(s, a, "yr") THEN {a + 2} ELSE {}) :
    \E c \in {IF StartsWith(s, b, "s") THEN b + 1 ELSE b} :
    \E d \in {RunEnd(s, c, YearsSeparators)} :
    \E f \in {IF StartsWith(s, d, "of") /\ d + 2 <= Len(s)
                  /\ IsSpace(CharAt(s, d + 2))
               THEN SkipSpaces(s, d + 2) ELSE d} :
        StartsWith(s, f, "experience") \/ StartsWith(s, f, "exp")

\* re.findall(years_pattern, text_lower): the runs of digits that the rest of
\* the pattern follows.  A match holds no digit after its first run, so no
\* match starts inside another.
YearsMatches(s) ==
    {SubSeq(s, i, RunEnd(s, i, Digits) - 1) :
        i \in {j \in 1..Len(s) :
                  /\ IsDigit(CharAt(s, j))
                  /\ j = 1 \/ ~IsDigit(CharAt(s, j - 1))
                  /\ YearsTail(s, RunEnd(s, j, Digits))}}

\* max(years) if years else 0
MaxOf(years) ==
    IF years = {} THEN 0 ELSE CHOOSE y \in years : \A z \in years : z <= y

SeniorYears == 7
MidYears == 3

\* a decision that tests for Mid-level before Senior
LevelOf_MidFirst(total_years, senior_count, mid_count, junior_count) ==
    IF total_years >= MidYears \/ mid_count > junior_count
    THEN "Mid-level"
    ELSE IF total_years >= SeniorYears \/ senior_count > mid_count + junior_count
    THEN "Senior"
    ELSE "Junior"

\* the level extract_experience_level decides on
LevelOf(total_years, senior_count, mid_count, junior_count) ==
    IF total_years >= SeniorYears \/ senior_count > mid_count + junior_count
    THEN "Senior"
    ELSE IF total_years >= MidYears \/ mid_count > junior_count
    THEN "Mid-level"
    ELSE "Junior"

\* total_years of extract_experience_level, for the lower-cased text
TotalYears(text_lower) ==
    TheOne({MaxOf({IntOfDigits(y) : y \in years_matches}) :
               years_matches \in {YearsMatches(text_lower)}})

\* what extract_experience_level returns for total_years and the lower-cased
\* text
ExperienceLevel(total_years, text_lower) ==
    [level |-> LevelOf(total_years, KeywordCount("senior", text_lower),
                       KeywordCount("mid-level", text_lower),
                       KeywordCount("junior", text_lower)),
     years_experience |-> IF total_years > 0 THEN ToString(total_years) \o "+"
                          ELSE "Not specified",
     confidence |-> IF total_years > 0 THEN Rat(4, 5) ELSE Rat(3, 5)]

\* extract_experience_level(text)
extract_experience_level(text) ==
    TheOne({ExperienceLevel(TotalYears(text_lower), text_lower) :
               text_lower \in {Lower(text)}})

\* the characters of email_pattern:  [A-Za-z0-9._%+-]  [A-Za-z0-9.-]  [A-Z|a-z]
EmailLocalChars ==
    Range(UpperChars) \cup Range(LowerChars) \cup Range(DigitChars)
        \cup {".", "_", "%", "+", "-"}

EmailDomainChars ==
    Range(UpperChars) \cup Range(LowerChars) \cup Range(DigitChars) \cup {".", "-"}

EmailTldChars == Range(UpperChars) \cup Range(LowerChars) \cup {"|"}

MinTld == 2

\* the positions where the last part of an email can end when its dot is at
\* position d: after two or more characters of the class, at a \b
TldEnds(text, d) ==
    {e \in (d + 1 + MinTld)..RunEnd(text, d + 1, EmailTldChars) :
        BoundaryAt(text, e)}

\* the positions of the dot in front of the last part of an email whose "@"
\* is at position at
TldDots(text, at) ==
    {d \in (at + 2)..(RunEnd(text, at + 1, EmailDomainChars) - 1) :
        CharAt(text, d) = "." /\ TldEnds(text, d) # {}}

\* the position after the match of email_pattern that starts at position i,
\* or 0 when none starts there: the domain is as long as it can be, and then
\* the last part is
EmailEnd(text, i) ==
    IF ~BoundaryAt(text, i) \/ CharAt(text, i) \notin EmailLocalChars THEN 0
    ELSE TheOne({(IF at > Len(text) \/ CharAt(text, at) # "@"
                     \/ TldDots(text, at) = {}
                  THEN 0
                  ELSE MaxOf(TldEnds(text, MaxOf(TldDots(text, at))))) :
                    at \in {RunEnd(text, i, EmailLocalChars)}})

\* emails[0] if emails else ""
FirstEmail(text) ==
    IF \A i \in 1..Len(text) : EmailEnd(text, i) = 0 THEN ""
    ELSE TheOne({SubSeq(text, i, EmailEnd(text, i) - 1) :
                    i \in {CHOOSE j \in 1..Len(text) :
                              /\ EmailEnd(text, j) # 0
                              /\ \A k \in 1..(j - 1) : EmailEnd(text, k) = 0}})

\* the patterns of a line with contact information
ContactPatterns ==
    <<"email", "phone", "tel:", "mobile:", "linkedin", "github", "@", "+", "http">>

NameLines == 8
MinNameWords == 2
MaxNameWords == 4
NameLimit == 50

\* word[0].isupper() and word.isalpha()
IsNameWord(word) ==
    /\ IsUpper(CharAt(word, 1))
    /\ \A i \in 1..Len(word) : IsAlpha(CharAt(word, i))

\* any(pattern in line.lower() for pattern in [...])
HasContactPattern(line) ==
    \E line_lower \in {Lower(line)} :
        \E k \in 1..Len(ContactPatterns) : ContainsAt(ContactPatterns[k], line_lower)

\* the test of a line for a name
IsNameLine(line) ==
    \E words \in {SplitWords(line)} :
        /\ MinNameWords <= Len(words)
        /\ Len(words) <= MaxNameWords
        /\ \A k \in 1..Len(words) : IsNameWord(words[k])
        /\ Len(line) < NameLimit

\* the loop over lines[:8] of extract_contact_info, from line k on
RECURSIVE NameFrom(_, _)
NameFrom(lines, k) ==
    IF k > Len(lines) THEN ""
    ELSE TheOne({(IF line = "" THEN NameFrom(lines, k + 1)
                  ELSE IF HasContactPattern(line) THEN NameFrom(lines, k + 1)
                  ELSE IF IsNameLine(line) THEN line
                  ELSE NameFrom(lines, k + 1)) :
                    line \in {Strip(lines[k])}})

\* extract_contact_info with a loop over all the lines of the text
extract_contact_info_AllLines(text) ==
    [name |-> TheOne({NameFrom(lines, 1) : lines \in {Split(text, "\n")}}),
     email |-> FirstEmail(text)]

\* extract_contact_info(text)
extract_contact_info(text) ==
    [name |-> TheOne({NameFrom(lines, 1) :
                         lines \in {Take(Split(text, "\n"), NameLines)}}),
     email |-> FirstEmail(text)]

\* the headings of education_pattern
EducationHeads ==
    <<HeadAlternative(<<"education">>, ""),
      HeadAlternative(<<"academic">>, ""),
      HeadAlternative(<<"qualification">>, "s")>>

\* orders in which list(found_education) can enumerate the title-cased
\* education keywords: the order depends on the hash seed of the process
HashOrders ==
    {[i \in 1..Len(education_keywords) |-> Title(education_keywords[i])],
     [i \in 1..Len(education_keywords) |->
         Title(education_keywords[Len(education_keywords) + 1 - i])]}

\* the education keywords that occur in one of the lower-cased texts
KeywordsIn(lowered) ==
    {Title(education_keywords[k]) : k \in
        {k \in 1..Len(education_keywords) :
            \E content \in lowered : ContainsAt(education_keywords[k], content)}}

\* found_education of extract_education(text): the keywords of the education
\* sections, or those of the entire text when the sections hold none
FoundEducation(text, text_lower) ==
    TheOne({(IF in_sections = {} THEN KeywordsIn({text_lower}) ELSE in_sections) :
               in_sections \in
                   {KeywordsIn({Lower(edu_content) : edu_content \in
                        SectionContents(text, text_lower, EducationHeads, 1)})}})

\* extract_education(text), where list(found_education) follows order
extract_education(text, order) ==
    TheOne({ListOfSet(found_education, order) :
               found_education \in
                   {FoundEducation(text, text_lower) :
                       text_lower \in {Lower(text)}}})

-----------------------------------------------------------------------------
(* RealResumeParser: PDF documents                                          *)

\* the most pages of a document
MaxPages == 1

\* the text of a page of the documents
PageText ==
    "Ann Lee\nSkills: Python\nEducation: Bachelor of Science, University of Texas"

\* what page.extract_text() does: it raises, or it returns None or a str
PageTexts ==
    {Raises("extract_text"), Returned(Null), Returned(Str("  ")),
     Returned(Str(PageText))}

\* what pdfplumber.open does in method 1: it raises, or it returns the pages
PlumberOutcomes ==
    {Raises("open")} \cup {Returned(p) : p \in SeqsUpTo(PageTexts, MaxPages)}

\* what PyPDF2.PdfReader does in method 2
PyPdfOutcomes ==
    {Raises("open"), Returned(<<>>), Returned(<<Returned(Null)>>),
     Returned(<<Returned(Str(PageText))>>),
     Returned(<<Raises("extract_text"), Returned(Str(PageText))>>)}

\* what pdfplumber.open does in method 3, where page.chars is read: a page
\* raises, or it returns a list of dicts
SalvageOutcomes ==
    {Raises("open"), Returned(<<>>), Returned(<<Raises("chars")>>),
     Returned(<<Returned(<<>>), Returned(<<[text |-> " "], EmptyDict>>)>>),
     Returned(<<Returned(<<[text |-> "C"], [text |-> "V"]>>)>>)}

\* pdf_content and what the PDF libraries make of it: pdfplumber.open of
\* method 1, PyPDF2.PdfReader of method 2 and pdfplumber.open of method 3
Documents ==
    {[header |-> FALSE, plumber |-> Raises("open"), pypdf |-> Raises("open"),
      salvage |-> Raises("open")]}
    \cup [header : {TRUE}, plumber : PlumberOutcomes, pypdf : PyPdfOutcomes,
          salvage : SalvageOutcomes]

\* text after the loop over the pages, where page.extract_text() is called
RECURSIVE PagesText(_)
PagesText(pages) ==
    IF Len(pages) = 0 THEN ""
    ELSE LET page_text == Head(pages)
         IN  (IF ~page_text.raised /\ page_text.ret.t = "str"
                 /\ Truthy(page_text.ret.v)
              THEN page_text.ret.v \o "\n" ELSE "")
             \o PagesText(Tail(pages))

\* ''.join([char.get('text', '') for char in chars])
RECURSIVE JoinChars(_)
JoinChars(chars) ==
    IF Len(chars) = 0 THEN ""
    ELSE Get(Head(chars), "text", "") \o JoinChars(Tail(chars))

\* text after the loop over the pages, where page.chars is read
RECURSIVE PagesChars(_)
PagesChars(pages) ==
    IF Len(pages) = 0 THEN ""
    ELSE (IF Head(pages).raised \/ Len(Head(pages).ret) = 0 THEN ""
          ELSE TheOne({(IF Truthy(Strip(char_text)) THEN char_text \o "\n"
                        ELSE "") :
                          char_text \in {JoinChars(Head(pages).ret)}}))
         \o PagesChars(Tail(pages))

\* a run of extract_text_from_pdf: the methods it tried, in order, and what
\* it did
Extraction(methods, outcome) == [methods |-> methods, outcome |-> outcome]

\* the end of extract_text_from_pdf without the test of the length
ExtractedText_Unchecked(text) == Returned(Strip(text))

\* the end of extract_text_from_pdf, after the methods
ExtractedText(text) ==
    TheOne({(IF Len(stripped) = 0
             THEN Raises("PDF appears to be empty or contains only images/scanned content")
             ELSE Returned(stripped)) :
               stripped \in {TheOne({Strip(t) : t \in {text}})}})

\* method 3 and the test that follows it
CharacterLevel(pdf_content) ==
    TheOne({(IF ~Truthy(Strip(text))
             THEN Raises("Could not extract any text from PDF file")
             ELSE ExtractedText(text)) :
               text \in {IF pdf_content.salvage.raised THEN ""
                         ELSE PagesChars(pdf_content.salvage.ret)}})

\* extract_text_from_pdf(pdf_content)
extract_text_from_pdf(pdf_content) ==
    IF ~pdf_content.header
    THEN Extraction(<<>>, Raises("Invalid PDF file format"))
    ELSE IF ~pdf_content.plumber.raised /\ Len(pdf_content.plumber.ret) > 0
    THEN Extraction(<<"pdfplumber">>,
                    ExtractedText(PagesText(pdf_content.plumber.ret)))
    ELSE IF ~pdf_content.pypdf.raised /\ Len(pdf_content.pypdf.ret) > 0
    THEN Extraction(<<"pdfplumber", "PyPDF2">>,
                    ExtractedText(PagesText(pdf_content.pypdf.ret)))
    ELSE Extraction(<<"pdfplumber", "PyPDF2", "character-level">>,
                    CharacterLevel(pdf_content))

\* the largest value of the clock
MaxClock == 1

\* a parse_resume that reports an empty profile whatever the extraction did
ParseResult_EmptyProfile(text, order, time) ==
    [success |-> TRUE, extracted_at |-> time,
     contact_info |-> [name |-> "", email |-> ""], skills |-> <<>>,
     experience_level |-> "Junior", years_experience |-> "Not specified",
     education |-> <<>>, text_length |-> 0, parsing_confidence |-> Rat(3, 5)]

\* the result of parse_resume for what extract_text_from_pdf did; of the
\* profile, the summary and the phone, location, linkedin and github of
\* contact_info are left out
ParseResult(text, order, time) ==
    IF text.raised
    THEN [success |-> FALSE, error |-> text.exc, extracted_at |-> time]
    ELSE IF ~Truthy(text.ret)
    THEN [success |-> FALSE, error |-> "Could not extract text from PDF",
          extracted_at |-> time]
    ELSE TheOne({[success |-> TRUE,
                  extracted_at |-> time,
                  contact_info |-> extract_contact_info(text.ret),
                  skills |-> extract_skills(text.ret),
                  experience_level |-> experience.level,
                  years_experience |-> experience.years_experience,
                  education |-> extract_education(text.ret, order),
                  text_length |-> Len(text.ret),
                  parsing_confidence |-> experience.confidence] :
                    experience \in {extract_experience_level(text.ret)}})

\* parse_resume(pdf_content), where list(set) follows order and
\* datetime.now() gives time
parse_resume(pdf_content, order, time) ==
    TheOne({ParseResult(text, order, time) :
               text \in {extract_text_from_pdf(pdf_content).outcome}})

-----------------------------------------------------------------------------
(* RealResumeParser: the calls                                              *)

\* the most lines of a text put together from a pool of lines
MaxLines == 2

\* the texts made of at most MaxLines lines of a pool
TextsOf(pool) ==
    {Join(lines, "\n") : lines \in UNION {[1..m -> pool] : m \in 1..MaxLines}}

\* a short resume
ResumeText ==
    "Jane Smith\njane.smith@x.com\nSkills: Python, React\n5 years experience"

\* texts given to extract_skills: every skill as a word of its own, and
\* texts with a skills section
SkillsTexts ==
    {skill : skill \in tech_skills}
    \cup {"I know " \o skill \o " well" : skill \in tech_skills}
    \cup {ResumeText, "Skills: Django", "django developer", "reactive forms",
          "Technical Skills:\n- Python, SQL Server\n\nTools: Git",
          "C++ and C# and F#", "Technologies - AWS\nReact Native apps"}

\* texts given to extract_experience_level
LevelTexts ==
    TextsOf({"Senior lead architect", "sr. principal", "Developer",
             "engineer and analyst", "Junior", "intern, trainee",
             "2 years experience", "3 yrs exp", "6+ years of experience",
             "7-years-experience", "12 years in industry",
             "Team of 15, 1 year of  exp"})
    \cup {ResumeText}

\* texts given to extract_contact_info: a line that may hold a name and the
\* line after it, below lines that hold none
NameTexts ==
    {Join(above \o <<first, second>>, "\n") :
        above \in {[i \in 1..m |-> filler] :
                      m \in 0..NameLines, filler \in {"", "Email: jane.smith@x.com"}},
        first \in {"Jane Smith", "jane smith", "Jane", "  Ann  Lee\t",
                   "Jane Q Smith Jones Doe", "Dr. Jane Smith", "Stephone Adams",
                   "Jane Smith +1", "RESUME", "Jane Smith2",
                   "Maximilian Alexandrovich Bartholomew Featherstone",
                   "Maximiliane Alexandrovich Bartholomew Featherstone"},
        second \in {"Ann Lee", "a.lee@mail.example.org", "Senior Developer"}}
    \cup {ResumeText}

\* texts given to extract_education
EducationTexts ==
    TextsOf({"Education: Bachelor of Science in Computer Science",
             "University of Technology, 2018", "MBA", "Jane Smith",
             "Qualifications\nPhD, Institute of Physics", "Skills: Python"})

\* the calls a program makes on one RealResumeParser
ParserCalls ==
    {[fn |-> "extract_skills", text |-> t] : t \in SkillsTexts}
    \cup {[fn |-> "extract_experience_level", text |-> t] : t \in LevelTexts}
    \cup {[fn |-> "extract_contact_info", text |-> t] : t \in NameTexts}
    \cup {[fn |-> "extract_education", text |-> t] : t \in EducationTexts}
    \cup {[fn |-> "parse_resume", pdf_content |-> d] : d \in Documents}

\* parser.extract_skills(text)
ExtractSkills ==
    /\ pcall.fn = "extract_skills"
    /\ pret = Unset
    /\ pret' = [ret |-> extract_skills(pcall.text)]
    /\ UNCHANGED <<pcall, hash_order, now, extraction, parsed, parsed_again>>
    /\ UNCHANGED notPaVars

\* parser.extract_experience_level(text)
ExtractExperienceLevel ==
    /\ pcall.fn = "extract_experience_level"
    /\ pret = Unset
    /\ pret' = [ret |-> extract_experience_level(pcall.text)]
    /\ UNCHANGED <<pcall, hash_order, now, extraction, parsed, parsed_again>>
    /\ UNCHANGED notPaVars

\* parser.extract_contact_info(text)
ExtractContactInfo ==
    /\ pcall.fn = "extract_contact_info"
    /\ pret = Unset
    /\ pret' = [ret |-> extract_contact_info(pcall.text)]
    /\ UNCHANGED <<pcall, hash_order, now, extraction, parsed, parsed_again>>
    /\ UNCHANGED notPaVars

\* parser.extract_education(text), and the same call once more
ExtractEducation ==
    /\ pcall.fn = "extract_education"
    /\ \/ pret = Unset
       \/ pret # Unset /\ "again" \notin DOMAIN pret
    /\ pret' = IF pret = Unset
               THEN [ret |-> extract_education(pcall.text, hash_order)]
               ELSE [ret |-> pret.ret,
                     again |-> extract_education(pcall.text, hash_order)]
    /\ UNCHANGED <<pcall, hash_order, now, extraction, parsed, parsed_again>>
    /\ UNCHANGED notPaVars

\* parser.parse_resume(pdf_content), for the first time
ParseResume ==
    /\ pcall.fn = "parse_resume"
    /\ parsed = Unset
    /\ \E time \in now..MaxClock :
        /\ now' = time
        /\ parsed' = parse_resume(pcall.pdf_content, hash_order, time)
    /\ extraction' = extract_text_from_pdf(pcall.pdf_content)
    /\ UNCHANGED <<pcall, hash_order, parsed_again, pret>>
    /\ UNCHANGED notPaVars

\* the program ends and is started again: the new process has a hash seed of
\* its own
Restart ==
    /\ \/ pcall.fn = "extract_education" /\ pret # Unset
             /\ "again" \notin DOMAIN pret
       \/ pcall.fn = "parse_resume" /\ parsed # Unset /\ parsed_again = Unset
    /\ hash_order' \in HashOrders \ {hash_order}
    /\ UNCHANGED <<pcall, now, extraction, parsed, parsed_again, pret>>
    /\ UNCHANGED notPaVars

\* parser.parse_resume(pdf_content) on the same document once more
ParseResumeAgain ==
    /\ pcall.fn = "parse_resume"
    /\ parsed # Unset
    /\ parsed_again = Unset
    /\ \E time \in now..MaxClock :
        /\ now' = time
        /\ parsed_again' = parse_resume(pcall.pdf_content, hash_order, time)
    /\ extraction' = extract_text_from_pdf(pcall.pdf_content)
    /\ UNCHANGED <<pcall, hash_order, parsed, pret>>
    /\ UNCHANGED notPaVars

PaNext ==
    \/ ExtractSkills
    \/ ExtractExperienceLevel
    \/ ExtractContactInfo
    \/ ExtractEducation
    \/ ParseResume
    \/ Restart
    \/ ParseResumeAgain

-----------------------------------------------------------------------------
(* The programs *)

\* a program that searches jobs with RealJobSearchAPI
InitFallback ==
    /\ sjob = Unset
    /\ sresume = Unset
    /\ sscore = NotScored
    /\ svariant = NoVariant
    /\ cfg \in Configs
    /\ pc = "idle"
    /\ calls = <<>>
    /\ requests = <<>>
    /\ jresp = Unset
    /\ jres = Unset
    /\ aresp = Unset
    /\ ares = Unset
    /\ result = Unset
    /\ agent = "none"
    /\ set_order = <<>>
    /\ mock_jobs = <<>>
    /\ audit_logs = <<>>
    /\ searches = 0
    /\ aresume = Unset
    /\ scored_jobs = <<>>
    /\ criteria = Unset
    /\ filtered = <<>>
    /\ matching_jobs = Unset
    /\ pcall = Unset
    /\ hash_order = <<>>
    /\ now = 0
    /\ extraction = Unset
    /\ parsed = Unset
    /\ parsed_again = Unset
    /\ pret = Unset

SpecFallback == InitFallback /\ [][FbNext]_vars

\* a call of search_jobs_with_fallback that has begun runs on: the interpreter
\* executes the next statement
SpecFallbackFair ==
    InitFallback /\ [][FbNext]_vars /\ WF_vars(TryJSearch \/ TryAdzuna)

\* a program that scores jobs with JobSearcherAgent.calculate_job_score
InitScore ==
    /\ cfg = NoConfig
    /\ pc = "none"
    /\ calls = <<>>
    /\ requests = <<>>
    /\ jresp = Unset
    /\ jres = Unset
    /\ aresp = Unset
    /\ ares = Unset
    /\ result = Unset
    /\ sjob \in Jobs
    /\ sresume \in Resumes
    /\ sscore = NotScored
    /\ svariant = NoVariant
    /\ agent = "none"
    /\ set_order = <<>>
    /\ mock_jobs = <<>>
    /\ audit_logs = <<>>
    /\ searches = 0
    /\ aresume = Unset
    /\ scored_jobs = <<>>
    /\ criteria = Unset
    /\ filtered = <<>>
    /\ matching_jobs = Unset
    /\ pcall = Unset
    /\ hash_order = <<>>
    /\ now = 0
    /\ extraction = Unset
    /\ parsed = Unset
    /\ parsed_again = Unset
    /\ pret = Unset

SpecScore == InitScore /\ [][ScNext]_vars

\* a program that searches jobs with one JobSearcherAgent or one
\* CompleteJobApplicationAgent
InitAgents ==
    /\ cfg = NoConfig
    /\ pc = "none"
    /\ calls = <<>>
    /\ requests = <<>>
    /\ jresp = Unset
    /\ jres = Unset
    /\ aresp = Unset
    /\ ares = Unset
    /\ result = Unset
    /\ sjob = Unset
    /\ sresume = Unset
    /\ sscore = NotScored
    /\ svariant = NoVariant
    /\ agent \in {"JobSearcherAgent", "CompleteJobApplicationAgent"}
    /\ set_order \in (IF agent = "JobSearcherAgent" THEN SetOrders ELSE {<<>>})
    /\ mock_jobs = (IF agent = "JobSearcherAgent" THEN SearcherMockJobs ELSE <<>>)
    /\ audit_logs = <<>>
    /\ searches = 0
    /\ aresume = Unset
    /\ scored_jobs = <<>>
    /\ criteria = Unset
    /\ filtered = <<>>
    /\ matching_jobs = Unset
    /\ pcall = Unset
    /\ hash_order = <<>>
    /\ now = 0
    /\ extraction = Unset
    /\ parsed = Unset
    /\ parsed_again = Unset
    /\ pret = Unset

SpecAgents == InitAgents /\ [][AgNext]_vars

\* a program that makes calls on one RealResumeParser
InitParser ==
    /\ cfg = NoConfig
    /\ pc = "none"
    /\ calls = <<>>
    /\ requests = <<>>
    /\ jresp = Unset
    /\ jres = Unset
    /\ aresp = Unset
    /\ ares = Unset
    /\ result = Unset
    /\ sjob = Unset
    /\ sresume = Unset
    /\ sscore = NotScored
    /\ svariant = NoVariant
    /\ agent = "none"
    /\ set_order = <<>>
    /\ mock_jobs = <<>>
    /\ audit_logs = <<>>
    /\ searches = 0
    /\ aresume = Unset
    /\ scored_jobs = <<>>
    /\ criteria = Unset
    /\ filtered = <<>>
    /\ matching_jobs = Unset
    /\ pcall \in ParserCalls
    /\ hash_order \in HashOrders
    /\ now = 0
    /\ extraction = Unset
    /\ parsed = Unset
    /\ parsed_again = Unset
    /\ pret = Unset

SpecParser == InitParser /\ [][PaNext]_vars

-----------------------------------------------------------------------------
(* Properties of search_jobs_with_fallback *)

IsSuccessWithJobs(res) ==
    res # Unset /\ res.success /\ Len(res.jobs) > 0

IsFailure(res) == res # Unset /\ ~res.success

\* a 200 body that the formatting code cannot digest
UndigestibleJSearch(body) ==
    \/ ~body.json
    \/ /\ "data" \in DOMAIN body.data
       /\ \E i \in 1..Len(body.data.data) :
            \/ Get(body.data.data[i], "job_city", Str("")).t # "str"
            \/ Get(body.data.data[i], "job_state", Str("")).t # "str"

UndigestibleAdzuna(body) ==
    \/ ~body.json
    \/ /\ "results" \in DOMAIN body.data
       /\ \E i \in 1..Len(body.data.results) :
            Get(body.data.results[i], "location", Obj(EmptyDict)).t # "dict"

\* the provider call failed: a timeout or network exception, a status other
\* than 200, or an answer whose formatting raises
FailedCall(resp, Undigestible(_)) ==
    /\ resp # Unset
    /\ \/ resp.kind = "raise"
       \/ resp.kind = "http" /\ resp.status # 200
       \/ resp.kind = "http" /\ resp.status = 200 /\ Undigestible(resp.body)

\* C1: Adzuna is invoked only after JSearch, and only when JSearch was skipped
\* as unconfigured, failed or returned no jobs; after a successful non-empty
\* JSearch result Adzuna is not invoked in that run and that result is returned.
C1_PriorityOrder ==
    /\ calls \in {<<>>, <<"JSearch">>, <<"Adzuna">>, <<"JSearch", "Adzuna">>}
    /\ pc = "adzuna" \/ "Adzuna" \in Range(calls) =>
          \/ ~Truthy(cfg.jsearch_api_key) /\ "JSearch" \notin Range(calls)
          \/ /\ calls[1] = "JSearch"
             /\ jres # Unset
             /\ ~jres.success \/ Len(jres.jobs) = 0
    /\ IsSuccessWithJobs(jres) =>
          /\ "Adzuna" \notin Range(calls)
          /\ [api |-> "Adzuna"] \notin Range(requests)
          /\ pc = "done"
          /\ result = jres

\* C1 witness: a run in which JSearch answered with no jobs and Adzuna was
\* invoked after it
C1_Witness ==
    /\ pc = "done"
    /\ calls = <<"JSearch", "Adzuna">>
    /\ jres # Unset /\ jres.success /\ Len(jres.jobs) = 0
    /\ result.success

\* C2: a returned Success has at least one job.
C2_SuccessHasJobs ==
    pc = "done" /\ result.success => Len(result.jobs) > 0

\* every provider is unconfigured or failed
AllUnavailable ==
    /\ ~Truthy(cfg.jsearch_api_key) \/ IsFailure(jres)
    /\ ~(Truthy(cfg.adzuna_app_id) /\ Truthy(cfg.adzuna_app_key)) \/ IsFailure(ares)

\* C3: when every provider is unconfigured or failed, the run returns a
\* Failure with setup guidance naming both providers and an empty job list.
C3_SetupGuidance ==
    /\ pc # "raised"
    /\ pc = "done" /\ AllUnavailable =>
          /\ ~result.success
          /\ result.jobs = <<>>
          /\ "setup_instructions" \in DOMAIN result
          /\ DOMAIN result.setup_instructions = {"jsearch_rapidapi", "adzuna"}
          /\ result.setup_instructions.jsearch_rapidapi.env_variable = "RAPIDAPI_KEY"
          /\ result.setup_instructions.adzuna.env_variables
                = <<"ADZUNA_APP_ID", "ADZUNA_APP_KEY">>

\* C3 witness: JSearch unconfigured, Adzuna answered 401 Unauthorized
C3_Witness ==
    /\ pc = "done"
    /\ ~Truthy(cfg.jsearch_api_key)
    /\ aresp # Unset /\ aresp.kind = "http" /\ aresp.status = 401
    /\ "setup_instructions" \in DOMAIN result

\* C4: no adapter is invoked and no request is issued for a provider whose
\* credentials are not all set; an unconfigured JSearch is skipped and Adzuna
\* is considered next.
C4_UnconfiguredNeverInvoked ==
    /\ \A i \in 1..Len(calls) :
          /\ calls[i] = "JSearch" => Truthy(cfg.jsearch_api_key)
          /\ calls[i] = "Adzuna" =>
                Truthy(cfg.adzuna_app_id) /\ Truthy(cfg.adzuna_app_key)
    /\ \A i \in 1..Len(requests) :
          /\ requests[i].api = "JSearch" => Truthy(cfg.jsearch_api_key)
          /\ requests[i].api = "Adzuna" =>
                Truthy(cfg.adzuna_app_id) /\ Truthy(cfg.adzuna_app_key)
    /\ pc = "done" /\ ~Truthy(cfg.jsearch_api_key)
          /\ Truthy(cfg.adzuna_app_id) /\ Truthy(cfg.adzuna_app_key)
          => calls = <<"Adzuna">>

\* C4 witness: JSearch has no key and was skipped, Adzuna was asked; and a run
\* with only one of the two Adzuna credentials has ended
C4_Witness ==
    /\ pc = "done"
    /\ \/ /\ ~Truthy(cfg.jsearch_api_key)
          /\ calls = <<"Adzuna">>
          /\ requests = <<[api |-> "Adzuna"]>>
       \/ /\ Truthy(cfg.adzuna_app_id) /\ ~Truthy(cfg.adzuna_app_key)
          /\ Truthy(cfg.jsearch_api_key)
          /\ calls = <<"JSearch">>
          /\ IsFailure(jres)

\* C5: no exception leaves search_jobs_with_fallback; a failed provider call
\* becomes a Failure of that provider and the next provider is considered; the
\* run is never stuck and ends with a result.
C5_FailuresBecomeValues ==
    /\ pc # "raised"
    /\ FailedCall(jresp, UndigestibleJSearch) =>
          /\ IsFailure(jres)
          /\ pc \in {"adzuna", "done"}
          /\ pc = "done" /\ Truthy(cfg.adzuna_app_id) /\ Truthy(cfg.adzuna_app_key)
                => calls = <<"JSearch", "Adzuna">>
    /\ FailedCall(aresp, UndigestibleAdzuna) =>
          /\ IsFailure(ares)
          /\ pc = "done"
          /\ IsFailure(result)
    /\ pc \in {"jsearch", "adzuna"} => ENABLED (TryJSearch \/ TryAdzuna)
    /\ pc = "done" => result # Unset /\ "success" \in DOMAIN result

\* C5 witness: JSearch answered 200 with a posting whose city is null, the
\* formatting raised, and Adzuna was invoked after it
C5_Witness ==
    /\ pc = "done"
    /\ jresp # Unset /\ jresp.kind = "http" /\ jresp.status = 200
    /\ UndigestibleJSearch(jresp.body) /\ jresp.body.json
    /\ calls = <<"JSearch", "Adzuna">>

-----------------------------------------------------------------------------
(* Properties of calculate_job_score *)

\* C6: calculate_job_score returns an integer from 0 to 100 for every job and
\* resume, whatever skills, seniority and posting age the job has or lacks.
C6_ScoreInRange ==
    /\ sscore # NotScored => sscore.ret \in 0..100
    /\ svariant.kind # "none" => svariant.score \in 0..100

\* C6 witness: a job without seniority, posted "-60 days ago", whose weighted
\* sum exceeds 100, was scored 100
C6_Witness ==
    /\ sscore # NotScored
    /\ sscore.ret = 100
    /\ IntOf(RawScore(sjob, sresume)) > 100
    /\ sjob.posted_days_ago = -60
    /\ "experience_level" \notin DOMAIN sjob

\* C9: the score does not depend on the order of the job's required skills
\* nor on the order of the candidate's skills.
C9_OrderInvariant ==
    svariant.kind = "reordered" => svariant.score = sscore.ret

\* C9 witness: a job with two different required skills, one of which the
\* candidate has, was scored in both orders
C9_Witness ==
    /\ svariant.kind = "reordered"
    /\ svariant.job # sjob
    /\ Cardinality(LowerSet(sjob.required_skills)) = 2
    /\ Cardinality(MatchingSkills(sjob, sresume)) = 1

\* the variant has one more matching skill than the scored pair, everything
\* but the skill lists being as it was
OneMoreMatchingSkill ==
    /\ svariant.kind = "added"
    /\ Cardinality(MatchingSkills(svariant.job, svariant.resume))
          = Cardinality(MatchingSkills(sjob, sresume)) + 1

\* C10: one more skill in the intersection of required and candidate skills
\* never lowers the score.
C10_Monotonic ==
    OneMoreMatchingSkill => svariant.score >= sscore.ret

\* C10 witness: the candidate had some of the required skills, a new skill was
\* added to the job and to the candidate, and the score rose
C10_Witness ==
    /\ OneMoreMatchingSkill
    /\ svariant.score > sscore.ret
    /\ LowerSet(Get(svariant.job, "required_skills", <<>>))
          # LowerSet(Get(sjob, "required_skills", <<>>))
    /\ MatchingSkills(sjob, sresume) # {}

-----------------------------------------------------------------------------
(* Properties of the ranked searches *)

\* the list the last search returned holds this job of mock_jobs
Surfaced(i) == \E n \in 1..Len(scored_jobs) : scored_jobs[n] = i

\* the score the last search computed for this job of mock_jobs
SearchScore(i) ==
    IF agent = "JobSearcherAgent"
    THEN calculate_job_score(mock_jobs[i], aresume)
    ELSE CompleteMatchScore(CompleteMockJobs[i], Get(aresume, "skills", <<>>))

\* this job of the searched list passes the job_type and remote_only filters
PassesOtherFilters(j) ==
    /\ Get(criteria, "job_type", "") # ""
          => Contains(Lower(criteria.job_type), Lower(mock_jobs[j].type))
    /\ Get(criteria, "remote_only", FALSE) => mock_jobs[j].remote_ok

\* filter_jobs_by_criteria keeps, of the jobs that pass its other filters,
\* those with match_score at least criteria.min_score
FilterKeepsAtOrAboveMinScore ==
    criteria # Unset =>
        \A n \in 1..Len(scored_jobs) :
            LET j == scored_jobs[n]
            IN  (\E m \in 1..Len(filtered) : filtered[m] = j)
                <=> /\ PassesOtherFilters(j)
                    /\ mock_jobs[j].match_score >= Get(criteria, "min_score", 0)

\* C7 as stated: a job is in the list search_jobs returns if and only if its
\* score is at least the cutoff, 50 for JobSearcherAgent and 60 for
\* CompleteJobApplicationAgent, and filter_jobs_by_criteria keeps the jobs with
\* match_score at least criteria.min_score.
C7_AtOrAboveCutoffSurfaced ==
    /\ searches > 0 =>
          \A i \in 1..Len(mock_jobs) :
              Surfaced(i) <=>
                  SearchScore(i) >= (IF agent = "JobSearcherAgent"
                                     THEN 50 ELSE 60)
    /\ FilterKeepsAtOrAboveMinScore

\* C7, amended: a job is in the list JobSearcherAgent.search_jobs returns if
\* and only if its score is greater than 50 (a job that scores exactly 50 is
\* left out), and in the list CompleteJobApplicationAgent.search_jobs returns
\* if and only if its match_score is at least 60; each such job is in the list
\* once; filter_jobs_by_criteria keeps, of the jobs that pass its job_type and
\* remote_only filters, exactly those with match_score at least
\* criteria.min_score.
C7_CutoffDecidesMembership ==
    /\ searches > 0 =>
          /\ \A i \in 1..Len(mock_jobs) :
                Surfaced(i) <=>
                    IF agent = "JobSearcherAgent"
                    THEN SearchScore(i) > 50
                    ELSE SearchScore(i) >= 60
          /\ \A n, m \in 1..Len(scored_jobs) :
                scored_jobs[n] = scored_jobs[m] => n = m
    /\ FilterKeepsAtOrAboveMinScore

\* C7 witness: JobSearcherAgent.search_jobs left out a job that scores exactly
\* 50 and returned another one, and filter_jobs_by_criteria then dropped a
\* returned job for its match_score
C7_Witness ==
    /\ agent = "JobSearcherAgent"
    /\ searches > 0
    /\ \E i \in 1..Len(mock_jobs) : SearchScore(i) = 50 /\ ~Surfaced(i)
    /\ criteria # Unset
    /\ \E n \in 1..Len(scored_jobs) :
          /\ PassesOtherFilters(scored_jobs[n])
          /\ mock_jobs[scored_jobs[n]].match_score < Get(criteria, "min_score", 0)
          /\ \A m \in 1..Len(filtered) : filtered[m] # scored_jobs[n]

\* C8: the list search_jobs returns is in descending order of match_score, and
\* two jobs of equal match_score are in the order they have in mock_jobs.
C8_SortedStable ==
    \A n, m \in 1..Len(scored_jobs) :
        n < m =>
            LET a == mock_jobs[scored_jobs[n]].match_score
                b == mock_jobs[scored_jobs[m]].match_score
            IN  /\ a >= b
                /\ a = b => scored_jobs[n] < scored_jobs[m]

\* C8 witness: a returned list in which the sort moved a job in front of
\* earlier jobs of mock_jobs and which holds two jobs of equal match_score
C8_Witness ==
    /\ searches > 0
    /\ \E n, m \in 1..Len(scored_jobs) :
          /\ n < m
          /\ scored_jobs[n] > scored_jobs[m]
    /\ \E n, m \in 1..Len(scored_jobs) :
          /\ n < m
          /\ mock_jobs[scored_jobs[n]].match_score
                = mock_jobs[scored_jobs[m]].match_score

-----------------------------------------------------------------------------
(* Properties of the score formula *)

\* round(x) of a fraction that is not negative, a half going up
RoundOf(a) == (2 * a.num + a.den) \div (2 * a.den)

\* C11: the final score is round(50*skillsFactor + 20*seniorityFactor
\* + 15*locationFactor + 15*recencyFactor), kept within 0..100: a sum with a
\* fractional part of one half or more goes up to the next integer.
C11_ScoreIsRoundedSum ==
    /\ sscore # NotScored =>
          sscore.ret = Min(100, Max(0, RoundOf(RawScore(sjob, sresume))))
    /\ svariant.kind # "none" =>
          svariant.score
              = Min(100, Max(0, RoundOf(RawScore(svariant.job, svariant.resume))))

-----------------------------------------------------------------------------
(* Properties of the reported matching skills *)

SkillsReasonPrefix == "Strong skills match: "

\* the matching skills reported for a job the last search returned, in lower
\* case: JobSearcherAgent names them in the first of match_reasons,
\* CompleteJobApplicationAgent lists them in matching_skills
ReportedSkills(job) ==
    IF agent = "JobSearcherAgent"
    THEN LET first == IF Len(job.match_reasons) > 0
                      THEN job.match_reasons[1] ELSE ""
             n == Len(SkillsReasonPrefix)
         IN  IF Len(first) >= n /\ SubSeq(first, 1, n) = SkillsReasonPrefix
             THEN Range(Split(SubSeq(first, n + 1, Len(first)), ", "))
             ELSE {}
    ELSE LowerSet(job.matching_skills)

\* the skills the job requires, in lower case
RequiredOf(job) ==
    IF agent = "JobSearcherAgent"
    THEN LowerSet(Get(job, "required_skills", <<>>))
    ELSE LowerSet(job.requirements)

\* C12: for every job a search returned, each skill reported as matching is,
\* case-insensitively, both a skill the job requires and a skill of the
\* candidate.
C12_ReportedSkillsAreShared ==
    \A n \in 1..Len(scored_jobs) :
        LET job == mock_jobs[scored_jobs[n]]
        IN  ReportedSkills(job)
                \subseteq (RequiredOf(job)
                              \cap LowerSet(Get(aresume, "skills", <<>>)))

-----------------------------------------------------------------------------
(* Properties of the state shared between searches *)

\* the dict that element n of the kept list refers to, as it is now
KeptJobNow(n) ==
    IF matching_jobs.shared
    THEN mock_jobs[matching_jobs.list[n]]
    ELSE matching_jobs.jobs[matching_jobs.list[n]]

\* the match_score and the match_reasons of every job of the kept list are
\* what they were when the list was returned
KeptListUnchanged ==
    matching_jobs # Unset =>
        \A n \in 1..Len(matching_jobs.list) :
            /\ KeptJobNow(n).match_score = matching_jobs.returned[n].match_score
            /\ Get(KeptJobNow(n), "match_reasons", <<>>)
                  = Get(matching_jobs.returned[n], "match_reasons", <<>>)

\* the job postings the agent stores are as __init__ made them
StoredPostingsUnmodified ==
    agent = "JobSearcherAgent" => mock_jobs = SearcherMockJobs

\* C13: after search_jobs returned a list for one candidate, a later
\* search_jobs for another candidate on the same agent leaves the match_score
\* and the match_reasons of every job of that list unchanged, and no search
\* modifies the stored job postings.
C13_NoSharedMutableState ==
    /\ KeptListUnchanged
    /\ StoredPostingsUnmodified

-----------------------------------------------------------------------------
(* Properties of the resume extraction                                      *)

\* an extractor has returned for the text
Extracted(fn, text) ==
    /\ pcall.fn = fn
    /\ pcall.text = text
    /\ pret # Unset

\* C14: for the text "Jane Smith\njane.smith@x.com\nSkills: Python, React\n
\* 5 years experience" the extractor yields the name "Jane Smith", the email
\* "jane.smith@x.com", exactly the skills Python and React and no other, and
\* the level Mid from 5 years.
C14_ResumeTextProfile ==
    /\ Extracted("extract_contact_info", ResumeText) =>
          /\ pret.ret.name = "Jane Smith"
          /\ pret.ret.email = "jane.smith@x.com"
    /\ Extracted("extract_skills", ResumeText) =>
          Range(pret.ret) = {"Python", "React"}
    /\ Extracted("extract_experience_level", ResumeText) =>
          /\ pret.ret.level = "Mid-level"
          /\ pret.ret.years_experience = "5+"

\* the texts that hold the skill as a word of its own between white space
TextsWithToken(skill) == {skill, "I know " \o skill \o " well"}

\* C15: for every skill of the vocabulary, c++, c# and f# among them, a text
\* that holds the skill as a whole token between white space yields the
\* title-cased skill in the result of extract_skills.
C15_EveryTokenIsFound ==
    \A skill \in tech_skills :
        (pcall.fn = "extract_skills" /\ pcall.text \in TextsWithToken(skill)
         /\ pret # Unset)
            => Title(skill) \in Range(pret.ret)

\* the first lines of the text, stripped
FirstLines(text) ==
    [k \in 1..Len(Take(Split(text, "\n"), NameLines)) |->
        Strip(Split(text, "\n")[k])]

\* the line holds no contact marker and is made of 2 to 4 capitalized
\* alphabetic tokens of less than 50 characters in all
Qualifies(line) ==
    /\ \A k \in 1..Len(ContactPatterns) :
          ~ContainsAt(ContactPatterns[k], Lower(line))
    /\ Len(SplitWords(line)) \in MinNameWords..MaxNameWords
    /\ \A k \in 1..Len(SplitWords(line)) :
          /\ IsUpper(CharAt(SplitWords(line)[k], 1))
          /\ \A i \in 1..Len(SplitWords(line)[k]) :
                IsAlpha(CharAt(SplitWords(line)[k], i))
    /\ Len(line) < NameLimit

\* the name is the first qualifying line of the lines, the empty string
\* when there is none
IsFirstQualifying(name, lines) ==
    IF \E k \in 1..Len(lines) : Qualifies(lines[k])
    THEN \E k \in 1..Len(lines) :
            /\ Qualifies(lines[k])
            /\ \A j \in 1..(k - 1) : ~Qualifies(lines[j])
            /\ name = lines[k]
    ELSE name = ""

\* C16: the name extract_contact_info returns is the stripped first line,
\* among the first 8 lines of the text, that holds no contact marker and is
\* made of 2 to 4 capitalized alphabetic tokens with a length under 50, and
\* the empty string when the first 8 lines hold no such line.
C16_NameIsFirstQualifyingLine ==
    (pcall.fn = "extract_contact_info" /\ pret # Unset) =>
        \E lines \in {FirstLines(pcall.text)} :
            IsFirstQualifying(pret.ret.name, lines)

\* a name was found on the eighth line, below lines with a contact marker
C16_Witness ==
    /\ pcall.fn = "extract_contact_info"
    /\ pret # Unset
    /\ pret.ret.name = "Jane Smith"
    /\ Len(Split(pcall.text, "\n")) > NameLines
    /\ Split(pcall.text, "\n")[NameLines] = "Jane Smith"
    /\ Split(pcall.text, "\n")[1] = "Email: jane.smith@x.com"

\* C17: extraction is deterministic: the extractor run twice on the same
\* input yields the same profile in every field, the order of the skills and
\* education lists included, whatever the hidden state, the time and the
\* iteration order of sets.
C17_ExtractionIsDeterministic ==
    /\ (pcall.fn = "extract_education" /\ pret # Unset
        /\ "again" \in DOMAIN pret) => pret.again = pret.ret
    /\ parsed_again # Unset => parsed_again = parsed

\* the text holds a character that is no white space
HasInk(text) == \E i \in 1..Len(text) : ~IsSpace(CharAt(text, i))

\* the errors of extract_text_from_pdf
ExtractionErrors ==
    {"Invalid PDF file format", "Could not extract any text from PDF file",
     "PDF appears to be empty or contains only images/scanned content"}

\* C18: extract_text_from_pdf never returns an empty text or a text of white
\* space only: it returns a text with a character that is no white space, or
\* it fails with an error.
C18_NeverBlankText ==
    extraction # Unset =>
        IF extraction.outcome.raised
        THEN extraction.outcome.exc \in ExtractionErrors
        ELSE HasInk(extraction.outcome.ret)

\* pdfplumber opened the document and its pages gave no text but white
\* space: the call failed
C18_Witness ==
    /\ extraction # Unset
    /\ extraction.methods = <<"pdfplumber">>
    /\ pcall.pdf_content.plumber.ret = <<Returned(Str("  "))>>
    /\ extraction.outcome.raised

\* the fields of a profile
ProfileFields ==
    {"success", "extracted_at", "contact_info", "skills", "experience_level",
     "years_experience", "education", "text_length", "parsing_confidence"}

\* C19: parse_resume returns every failure of the document format (no %PDF-
\* signature, no pages, no text to extract) as a value with success false and
\* the error; it neither raises it nor reports a success with a partial or
\* empty profile; success is true only when a text was extracted and all the
\* extraction steps ran.
C19_FailuresAreReturned ==
    parsed # Unset =>
        /\ "success" \in DOMAIN parsed
        /\ extraction.outcome.raised =>
              /\ parsed.success = FALSE
              /\ DOMAIN parsed = {"success", "error", "extracted_at"}
              /\ parsed.error = extraction.outcome.exc
        /\ parsed.success =>
              /\ ~extraction.outcome.raised
              /\ HasInk(extraction.outcome.ret)
              /\ DOMAIN parsed = ProfileFields
              /\ parsed.text_length = Len(extraction.outcome.ret)

\* neither pdfplumber nor PyPDF2 found a page, and parse_resume returned a
\* failure
C19_Witness ==
    /\ parsed # Unset
    /\ pcall.pdf_content.header
    /\ pcall.pdf_content.plumber = Returned(<<>>)
    /\ pcall.pdf_content.pypdf = Returned(<<>>)
    /\ parsed.success = FALSE
    /\ parsed.error = "Could not extract any text from PDF file"

\* the level by the rule: Senior first, then Mid, then Junior
LevelByRule(years, seniorCount, midCount, juniorCount) ==
    IF years >= 7 \/ seniorCount > midCount + juniorCount THEN "Senior"
    ELSE IF years >= 3 \/ midCount > juniorCount THEN "Mid-level"
    ELSE "Junior"

\* C20: the level extract_experience_level returns is Senior if years >= 7
\* or seniorCount > midCount + juniorCount; otherwise Mid if years >= 3 or
\* midCount > juniorCount; otherwise Junior, where years is the largest year
\* count of the text (0 when none): one level, and the earlier rule wins.
C20_LevelByPriority ==
    (pcall.fn = "extract_experience_level" /\ pret # Unset) =>
        \E text_lower \in {Lower(pcall.text)} :
            pret.ret.level =
                LevelByRule(TotalYears(text_lower),
                            KeywordCount("senior", text_lower),
                            KeywordCount("mid-level", text_lower),
                            KeywordCount("junior", text_lower))

\* the rule of Senior holds by the keywords and the rule of Mid by the
\* years: the level is Senior
C20_Witness ==
    /\ pcall.fn = "extract_experience_level"
    /\ pret # Unset
    /\ pret.ret.level = "Senior"
    /\ pret.ret.years_experience = "3+"

-----------------------------------------------------------------------------
(* Properties of the factors of the score                                   *)

\* equal fractions
RatEq(a, b) == a.num * b.den = b.num * a.den

\* the levels Junior < Mid < Senior
LevelRank(level) ==
    CASE Lower(level) = "junior" -> 1
      [] Lower(level) = "mid-level" -> 2
      [] Lower(level) = "senior" -> 3

\* the factor by the distance of the levels: 1 for equal levels, 0.8 for a
\* candidate one level above the job, 0.6 for two levels above, else 0
FactorByDistance(candidate, job) ==
    IF candidate = job THEN Rat(1, 1)
    ELSE IF candidate = job + 1 THEN Rat(8, 10)
    ELSE IF candidate = job + 2 THEN Rat(6, 10)
    ELSE Rat(0, 1)

\* C21: over the levels Junior < Mid < Senior, the seniority factor of
\* calculate_job_score is 1.0 when the level of the candidate is that of the
\* job, 0.8 when the candidate is one level above the job, 0.6 when the
\* candidate is two levels above, and 0 in every other case.
C21_SeniorityFactorByDistance ==
    (/\ sscore # NotScored
     /\ "experience_level" \in DOMAIN sjob
     /\ "experience_level" \in DOMAIN sresume) =>
        RatEq(exp_match(sjob, sresume),
              FactorByDistance(LevelRank(sresume.experience_level),
                               LevelRank(sjob.experience_level)))

\* the candidate asked for remote work
PrefersRemote(resume_data) ==
    Contains("remote", Lower(Get(resume_data, "preferred_location", "")))

\* the candidate stated a preferred location, and it occurs in the location
\* of the job
PreferredInJobLocation(job, resume_data) ==
    /\ "preferred_location" \in DOMAIN resume_data
    /\ resume_data.preferred_location # ""
    /\ Contains(Lower(resume_data.preferred_location),
                Lower(Get(job, "location", "")))

\* C22: for a candidate who did not ask for remote work, a candidate without
\* a preferred location included, the location factor of calculate_job_score
\* is 0.7 when the location of the job says "remote", and 0 when it does not
\* and the preferred location does not occur in it; the factor is 1.0 only
\* when the job allows remote work and the candidate prefers it, or the
\* preferred location the candidate stated occurs in the location of the job.
C22_LocationFactor ==
    sscore # NotScored =>
        /\ RatEq(location_match(sjob, sresume), Rat(1, 1)) =>
              \/ Get(sjob, "remote_ok", FALSE) /\ PrefersRemote(sresume)
              \/ PreferredInJobLocation(sjob, sresume)
        /\ (~PrefersRemote(sresume) /\ ~PreferredInJobLocation(sjob, sresume)) =>
              RatEq(location_match(sjob, sresume),
                    IF Contains("remote", Lower(Get(sjob, "location", "")))
                    THEN Rat(7, 10) ELSE Rat(0, 1))

-----------------------------------------------------------------------------
(* Properties of the match reasons                                          *)

\* the factor a match reason speaks of
ReasonFactor(reason) ==
    IF StartsWith(reason, 1, "Strong skills match") THEN "skills"
    ELSE IF StartsWith(reason, 1, "Perfect experience level match")
    THEN "seniority"
    ELSE IF StartsWith(reason, 1, "Offers remote work") THEN "location"
    ELSE IF StartsWith(reason, 1, "Recently posted") THEN "recency"
    ELSE "none"

\* the factors that add a positive amount to the score of the job, in the
\* order skills, seniority, remote/location, recency
PositiveFactors(job, resume_data) ==
    (IF RatPositive(SkillsPoints(job, resume_data)) THEN <<"skills">> ELSE <<>>)
    \o (IF RatPositive(exp_match(job, resume_data)) THEN <<"seniority">> ELSE <<>>)
    \o (IF RatPositive(location_match(job, resume_data))
        THEN <<"location">> ELSE <<>>)
    \o (IF RatPositive(recency_score(job)) THEN <<"recency">> ELSE <<>>)

\* C23: the match reasons of a job hold one reason for each of the four
\* factors (skills, seniority, remote/location, recency) that added a
\* positive amount to the score calculate_job_score gave the job for the same
\* candidate, in that order, and no reason for a factor that added nothing.
C23_ReasonsFollowTheScore ==
    agent = "JobSearcherAgent" =>
        \A n \in 1..Len(scored_jobs) :
            [k \in 1..Len(mock_jobs[scored_jobs[n]].match_reasons) |->
                ReasonFactor(mock_jobs[scored_jobs[n]].match_reasons[k])]
            = PositiveFactors(mock_jobs[scored_jobs[n]], aresume)

-----------------------------------------------------------------------------
(* Properties of RealResumeParser, continued                                *)

\* C24: every skill extract_skills returns is the title-cased form of a
\* token of the vocabulary that occurs in the text as a whole token, word-
\* bounded and whatever its case: a token that occurs only inside a longer
\* word ("r" or "c" in "react", "go" in "django") is not reported, not in a
\* skills section either.
C24_OnlyWholeTokens ==
    (pcall.fn = "extract_skills" /\ pret # Unset) =>
        \E text_lower \in {Lower(pcall.text)} :
            \A k \in 1..Len(pret.ret) :
                \E skill \in tech_skills :
                    /\ Title(skill) = pret.ret[k]
                    /\ SearchWord(skill, text_lower)

\* the errors of extract_text_from_pdf that tell a lack of text
NoTextErrors ==
    {"Could not extract any text from PDF file",
     "PDF appears to be empty or contains only images/scanned content"}

\* C28: extract_text_from_pdf fails for a lack of text only after pdfplumber,
\* PyPDF2 and the character-level method were tried, in that order, and found
\* no character but white space: a first method that finds nothing is
\* followed by the second and the third before the failure is reported.
C28_AllMethodsBeforeFailure ==
    (/\ extraction # Unset
     /\ extraction.outcome.raised
     /\ extraction.outcome.exc \in NoTextErrors) =>
        extraction.methods = <<"pdfplumber", "PyPDF2", "character-level">>

-----------------------------------------------------------------------------
(* Properties of RealJobSearchAPI, continued                                *)

\* the providers the setup guidance of a result names
GuidanceProviders(res) ==
    {provider \in {"JSearch", "Adzuna"} :
        (IF provider = "JSearch" THEN "jsearch_rapidapi" ELSE "adzuna")
            \in DOMAIN res.setup_instructions}

\* the providers whose credentials are absent
Unconfigured(c) ==
    {provider \in {"JSearch", "Adzuna"} :
        IF provider = "JSearch" THEN ~Truthy(c.jsearch_api_key)
        ELSE ~(Truthy(c.adzuna_app_id) /\ Truthy(c.adzuna_app_key))}

\* C25: the setup guidance of the final Failure of search_jobs_with_fallback
\* tells which credentials are missing: the providers it reports as not
\* configured are the providers whose credentials are absent, so a provider
\* that is configured and failed or returned nothing is not among them.
C25_GuidanceNamesTheMissing ==
    (pc = "done" /\ "setup_instructions" \in DOMAIN result) =>
        /\ GuidanceProviders(result) = Unconfigured(cfg)
        /\ result.error = "No job search APIs configured"
              => Unconfigured(cfg) = {"JSearch", "Adzuna"}

\* the requests of the invocation that went to the provider
RequestsTo(provider) == {i \in 1..Len(requests) : requests[i].api = provider}

\* no provider was invoked twice, and no request was issued twice
EachProviderAtMostOnce ==
    /\ \A i, j \in 1..Len(calls) : calls[i] = calls[j] => i = j
    /\ Cardinality(RequestsTo("JSearch")) <= 1
    /\ Cardinality(RequestsTo("Adzuna")) <= 1
    /\ Len(requests) <= 2

\* C26: within one invocation of search_jobs_with_fallback each provider is
\* invoked at most once, so at most two requests are issued, and the
\* invocation ends once both providers have been considered.
C26_NoRetryAndTermination ==
    /\ []EachProviderAtMostOnce
    /\ (pc \in {"jsearch", "adzuna"}) ~> (pc = "done")

\* both providers were invoked, once each, and the invocation has ended
C26_Witness ==
    /\ pc = "done"
    /\ calls = <<"JSearch", "Adzuna">>
    /\ requests = <<[api |-> "JSearch"], [api |-> "Adzuna"]>>

\* the kind of the error of a provider: 429 is RateLimited, 401 Unauthorized,
\* a timeout or another exception of the request Transient, any other status
\* Unknown
KindOfError(resp) ==
    IF resp.kind = "raise" THEN "Transient"
    ELSE IF resp.status = 429 THEN "RateLimited"
    ELSE IF resp.status = 401 THEN "Unauthorized"
    ELSE "Unknown"

\* the kind of error a Failure tells, by the words of its error
KindOfFailure(res) ==
    IF ContainsAt("Rate limit exceeded", res.error) THEN "RateLimited"
    ELSE IF ContainsAt("Invalid API key", res.error) THEN "Unauthorized"
    ELSE IF ContainsAt("request failed", res.error) THEN "Transient"
    ELSE "Unknown"

\* the request of an adapter failed: it raised, or the status is not 200
RequestFailed(resp, res) ==
    /\ resp # Unset
    /\ res # Unset
    /\ resp.kind = "raise" \/ resp.status # 200

\* C27: each provider adapter turns the error of its provider into a Failure
\* whose kind of error tells RateLimited (429), Unauthorized (401), Transient
\* (timeout, exception of the request) and Unknown (any other status) apart,
\* the JSearch adapter and the Adzuna adapter alike.
C27_FailureTellsTheKind ==
    /\ RequestFailed(jresp, jres) =>
          ~jres.success /\ KindOfFailure(jres) = KindOfError(jresp)
    /\ RequestFailed(aresp, ares) =>
          ~ares.success /\ KindOfFailure(ares) = KindOfError(aresp)

\* the source of the jobs of the provider a result names in api_used
SourceOf(api_used) ==
    IF api_used = "JSearch (RapidAPI)" THEN "JSearch"
    ELSE IF api_used = "Adzuna" THEN "Adzuna"
    ELSE "none"

\* C30: a result of search_jobs_with_fallback comes from one provider
\* attempt: in a Success all jobs carry the source of the provider named in
\* api_used, jobs of JSearch and Adzuna are not mixed and no job of an
\* attempt that was rejected is in the result; in a Failure the list of jobs
\* is empty.
C30_ResultOfOneAttempt ==
    pc = "done" =>
        IF result.success
        THEN /\ result \in {jres, ares}
             /\ SourceOf(result.api_used) \in {"JSearch", "Adzuna"}
             /\ \A i \in 1..Len(result.jobs) :
                   result.jobs[i].source = SourceOf(result.api_used)
             /\ result = ares => \A i \in 1..Len(result.jobs) :
                   \A j \in 1..Len(Get(jres, "jobs", <<>>)) :
                       result.jobs[i] # jres.jobs[j]
        ELSE result.jobs = <<>>

\* JSearch failed, Adzuna was asked after it and its jobs are the result
C30_Witness ==
    /\ pc = "done"
    /\ calls = <<"JSearch", "Adzuna">>
    /\ jres # Unset /\ ~jres.success
    /\ result.success
    /\ Len(result.jobs) = MaxItems

\* the fields of a posting whose values come from the provider
ProviderFields == {"id", "company_logo", "location", "salary"}

\* the provider supplied a number under the key
Supplied(job_data, key) ==
    key \in DOMAIN job_data /\ job_data[key].t = "num"

\* no field of the posting is null, and its salary is "Not specified" when
\* and only when the provider supplied neither a minimum nor a maximum
PostingIsComplete(job, job_data, min_key, max_key) ==
    /\ \A field \in ProviderFields : job[field] # Null
    /\ job.salary = Str("Not specified")
          <=> ~Supplied(job_data, min_key) /\ ~Supplied(job_data, max_key)

\* C29: in a job posting a provider adapter makes (_format_jsearch_response,
\* _format_adzuna_response) no field is null: an optional field the provider
\* left out (salary, company logo, parts of the location) holds a sentinel
\* such as "Not specified" or an empty value, and the salary is "Not
\* specified" exactly when neither a minimum nor a maximum was supplied.
C29_NoNullField ==
    /\ (jres # Unset /\ jres.success) =>
          \A i \in 1..Len(jres.jobs) :
              PostingIsComplete(jres.jobs[i], jresp.body.data.data[i],
                                "job_min_salary", "job_max_salary")
    /\ (ares # Unset /\ ares.success) =>
          \A i \in 1..Len(ares.jobs) :
              PostingIsComplete(ares.jobs[i], aresp.body.data.results[i],
                                "salary_min", "salary_max")

====
